---- MODULE Spec2Model ----
(***************************************************************************)
(* NodeBasedStreamlitTool: the function-to-node adapter                    *)
(* (src/gen_block/gen_block.py), the data-combination decorator            *)
(* (src/modules/default/function_modificators/data_combination.py) and     *)
(* the grid expansion (src/modules/default/blocks/default_blocks.py).      *)
(*                                                                         *)
(* Python values are encoded as follows.                                   *)
(*   str    a sequence of one-character strings, <<"a","_","f">>           *)
(*   dict   an association list: a sequence of [k |-> key, v |-> value]    *)
(*          with distinct keys, in insertion order                         *)
(*   list, tuple   a sequence                                              *)
(*   None   the number None                                                *)
(***************************************************************************)
EXTENDS Integers, Sequences, FiniteSets, TLC

VARIABLES
    block,       \* the built Block: its output labels, its inputs and options
    ports,       \* the Block's output interfaces: label -> value (None when unset)
    exec_time,   \* number of times the "exec_time" state was recorded
    last,        \* the outcome of the last node invocation
    inp,         \* the arguments of the call under way: of the decorated function,
                 \* of generate_combinations, of find_return_value_count, of generate_block
    pc,          \* "ready" before that call, "done" after it; "config", "built",
                 \* "invoked" for generate_block and the node it builds
    ret,         \* what the call returned or raised
    calls,       \* the keyword arguments of every invocation of the compute function
    env          \* what outlives a call: the cache directory, st.session_state,
                 \* the objects the caller and the wrapper's default hold

vars == <<block, ports, exec_time, last, inp, pc, ret, calls, env>>

nodeVars == <<block, ports, exec_time, last>>
combVars == <<inp, pc, ret, calls>>

\* ------------------------------------------------------------------ bounds

MaxOutputs == 2      \* inferred output count of a function: 0..MaxOutputs
MaxInvocations == 2  \* node invocations that return normally, per behaviour
MaxVal == 2          \* output values: 1..MaxVal
MaxGrid == 2         \* entries of a parameter grid: 0..MaxGrid
MaxLen == 2          \* items of a data source: 0..MaxLen
MaxFlag == 2         \* zip flags: 0..MaxFlag
MaxCalls == 2        \* calls of a function in one run: 0..MaxCalls

None == 0

Val == 1 .. MaxVal

\* ---------------------------------------------------------- python helpers

Min(a, b) == IF a <= b THEN a ELSE b

\* zip(a, b): pairs up to the shorter of the two.
Zip2(a, b) == [i \in 1 .. Min(Len(a), Len(b)) |-> <<a[i], b[i]>>]

Range(s) == {s[i] : i \in DOMAIN s}

Reverse(s) == [i \in DOMAIN s |-> s[Len(s) + 1 - i]]

\* ============================================================= the adapter

DefaultLabels == <<"output_1", "output_2", "output_3", "output_4", "output_5">>
ConfiguredLabels == <<"a", "b", "c", "d", "e", "f">>

\* output_names_default = [f"output_{i+1}" for i in range(num_outputs)]
OutputNamesDefault(num_outputs) == SubSeq(DefaultLabels, 1, num_outputs)

\* The reconciliation that pads a shorter list and leaves a longer one as it is.
PadOutputNames(configured, num_outputs) ==
    LET dflt == OutputNamesDefault(num_outputs)
    IN  IF Len(configured) < Len(dflt)
        THEN configured \o SubSeq(dflt, Len(configured) + 1, Len(dflt))
        ELSE configured

\* The reconciliation of the configured labels with the inferred count:
\* truncate a longer list, pad a shorter one with the default labels.
ReconcileOutputNames(configured, num_outputs) ==
    LET dflt == OutputNamesDefault(num_outputs)
    IN  IF Len(configured) > Len(dflt)
        THEN SubSeq(configured, 1, Len(dflt))
        ELSE IF Len(configured) < Len(dflt)
             THEN configured \o SubSeq(dflt, Len(configured) + 1, Len(dflt))
             ELSE configured

\* options_config.get("output_names", output_names_default), then reconciled.
\* has_names is whether the configuration holds the key "output_names".
OutputNames(has_names, configured, num_outputs) ==
    ReconcileOutputNames(
        IF has_names THEN configured ELSE OutputNamesDefault(num_outputs),
        num_outputs)

\* What the compute function can hand back: a tuple of values, or one object
\* that is not a tuple.
Produced ==
    [isTuple : {TRUE}, elems : UNION {[1 .. n -> Val] : n \in 0 .. MaxOutputs + 1}]
    \cup [isTuple : {FALSE}, value : Val \cup {None}]

\* if not isinstance(outputs, tuple): outputs = (outputs,)
AsTuple(outputs) == IF outputs.isTuple THEN outputs.elems ELSE <<outputs.value>>

\* Published with the values paired to the labels from the last label down.
PublishedFromLast(outputs, output_names) ==
    LET z == Zip2(AsTuple(outputs), Reverse(output_names))
    IN  [i \in DOMAIN z |-> [name |-> z[i][2], value |-> z[i][1]]]

\* for output_value, output_name in zip(outputs, output_names): the
\* set_interface calls of one invocation, in order.
Published(outputs, output_names) ==
    LET z == Zip2(AsTuple(outputs), output_names)
    IN  [i \in DOMAIN z |-> [name |-> z[i][2], value |-> z[i][1]]]

\* The interfaces after the set_interface calls of pub, the later call winning.
RECURSIVE SetInterfaces(_, _)
SetInterfaces(p, pub) ==
    IF pub = << >> THEN p
    ELSE SetInterfaces([p EXCEPT ![Head(pub).name] = Head(pub).value], Tail(pub))

\* ================================================== the combination engine

\* ------------------------------------------------------------------- dicts

EmptyDict == << >>

Keys(d) == {d[i].k : i \in DOMAIN d}

Has(d, k) == k \in Keys(d)

Get(d, k) == d[CHOOSE i \in DOMAIN d : d[i].k = k].v

\* d[k] = v: a key already there keeps its place and takes the new value.
Put(d, k, v) ==
    IF Has(d, k)
    THEN [i \in DOMAIN d |-> IF d[i].k = k THEN [k |-> k, v |-> v] ELSE d[i]]
    ELSE Append(d, [k |-> k, v |-> v])

\* d.update(e)
RECURSIVE Update(_, _)
Update(d, e) ==
    IF e = << >> THEN d ELSE Update(Put(d, Head(e).k, Head(e).v), Tail(e))

\* ----------------------------------------------------------------- strings

\* The least index at which sep occurs in s, 0 when it does not.
Find(s, sep) ==
    LET occ == {i \in 1 .. Len(s) - Len(sep) + 1 :
                    SubSeq(s, i, i + Len(sep) - 1) = sep}
    IN  IF occ = {} THEN 0 ELSE CHOOSE i \in occ : \A j \in occ : i <= j

\* s.split(sep)[0]
SplitHead(s, sep) ==
    IF Find(s, sep) = 0 THEN s ELSE SubSeq(s, 1, Find(s, sep) - 1)

Underscore == <<"_">>

\* ------------------------------------------------------------------- lists

RECURSIVE Flatten(_)
Flatten(ss) == IF ss = << >> THEN << >> ELSE Head(ss) \o Flatten(Tail(ss))

\* itertools.product(*lists): tuples with one element of each list, the last
\* list varying fastest.
RECURSIVE Product(_)
Product(lists) ==
    IF lists = << >> THEN << << >> >>
    ELSE LET rest == Product(Tail(lists))
         IN  Flatten([i \in DOMAIN Head(lists) |->
                        [j \in DOMAIN rest |-> <<Head(lists)[i]>> \o rest[j]]])

MinLen(lists) ==
    CHOOSE n \in {Len(lists[i]) : i \in DOMAIN lists} :
        \A i \in DOMAIN lists : n <= Len(lists[i])

\* zip(*lists): the j-th tuple takes the j-th element of each list, up to the
\* shortest list; zip() of no list is empty.
ZipAll(lists) ==
    IF lists = << >> THEN << >>
    ELSE [j \in 1 .. MinLen(lists) |-> [i \in DOMAIN lists |-> lists[i][j]]]

\* The elements of s whose index is in keep, in order.
SelectIdx(s, keep) ==
    Flatten([i \in DOMAIN s |-> IF i \in keep THEN <<s[i]>> ELSE << >>])

\* The members of a set of numbers in ascending order.
RECURSIVE Sorted(_)
Sorted(S) ==
    IF S = {} THEN << >>
    ELSE LET m == CHOOSE x \in S : \A y \in S : x <= y
         IN  <<m>> \o Sorted(S \ {m})

\* ------------------------------------------------------------ data sources

\* An element of a data source as the caller gives it: a bare value val, or
\* the tuple (prov, val).
Bare(v) == [pair |-> FALSE, prov |-> EmptyDict, val |-> v]
Pair(p, v) == [pair |-> TRUE, prov |-> p, val |-> v]

\* _ensure_tuples: a list whose elements are all tuples is kept, item[0] its
\* provenance and item[1] its value; in any other list every element is
\* wrapped whole into ({}, element).
EnsureTuples(arr_list) ==
    IF \A i \in DOMAIN arr_list : arr_list[i].pair
    THEN [i \in DOMAIN arr_list |->
            [prov |-> arr_list[i].prov, data |-> Bare(arr_list[i].val)]]
    ELSE [i \in DOMAIN arr_list |-> [prov |-> EmptyDict, data |-> arr_list[i]]]


\* ------------------------------------------- _generate_data_combinations

\* The mark zip_data_tmp[position] = None of a position already filled; it
\* equals no zip flag.
UsedSlot == -1

\* position = zip_data_tmp.index(flag)
IndexOf(zip_data_tmp, flag) ==
    CHOOSE i \in DOMAIN zip_data_tmp :
        /\ zip_data_tmp[i] = flag
        /\ \A j \in 1 .. i - 1 : zip_data_tmp[j] # flag

\* The inner loops of the reconstruction: each value goes to the first
\* position of its flag that is still free.
RECURSIVE PlaceAll(_, _, _)
PlaceAll(temp_list, zip_data_tmp, placements) ==
    IF placements = << >> THEN temp_list
    ELSE LET position == IndexOf(zip_data_tmp, Head(placements).flag)
         IN  PlaceAll([temp_list EXCEPT ![position] = Head(placements).value],
                      [zip_data_tmp EXCEPT ![position] = UsedSlot],
                      Tail(placements))

\* Reconstruct leaving the values in the order of final_product, group after
\* group.
ReconstructInGroupOrder(zip_data, flags, combination) == Flatten(combination)

\* One combination of final_product put back into the sources' positions.
\* flags is the key order of sets_of_combinations, combination[idx] the tuple
\* taken from the group of flags[idx].
Reconstruct(zip_data, flags, combination) ==
    PlaceAll([i \in DOMAIN zip_data |-> None],
             zip_data,
             Flatten([idx \in DOMAIN flags |->
                        [j \in DOMAIN combination[idx] |->
                            [flag |-> flags[idx], value |-> combination[idx][j]]]]))

\* unique_flags = list(set(zip_data)): small integers come out of a set in
\* ascending order.
UniqueFlags(zip_data) == Sorted(Range(zip_data))

\* dict_of_zip[k]: the sources with flag k, in source order (zip stops at the
\* shorter of zip_data and data_sources).
DictOfZip(zip_data, data_sources, k) ==
    SelectIdx(data_sources, {i \in DOMAIN zip_data : zip_data[i] = k})

\* SetOfCombinations taking the cartesian product for every flag.
SetOfCombinationsNoZip(zip_data, data_sources, k) ==
    Product(DictOfZip(zip_data, data_sources, k))

\* sets_of_combinations[k]: a non-zero flag zips its sources, flag 0 takes
\* their cartesian product.
SetOfCombinations(zip_data, data_sources, k) ==
    IF k # 0
    THEN ZipAll(DictOfZip(zip_data, data_sources, k))
    ELSE Product(DictOfZip(zip_data, data_sources, k))

GenerateDataCombinations(zip_data, data_sources) ==
    LET flags == UniqueFlags(zip_data)
        final_product ==
            Product([idx \in DOMAIN flags |->
                        SetOfCombinations(zip_data, data_sources, flags[idx])])
    IN  [c \in DOMAIN final_product |->
            Reconstruct(zip_data, flags, final_product[c])]

\* --------------------------------------------------- process_list_of_dicts

\* data_param_names = [list(param_names.keys())[i] for i in self.data_params]
\* (data_params holds positions in the signature, counted from 1 here).
DataParamNames(func, data_params) ==
    [i \in DOMAIN data_params |-> func.params[data_params[i]].name]

\* default_param_values: every parameter that is no data parameter, with its
\* default, or None when it has none. The dict is built over a set of names,
\* so its order is not the signature's: set_rev picks between the two orders
\* two such parameters can come in.
DefaultParamValues(func, data_params, set_rev) ==
    LET names == Range(DataParamNames(func, data_params))
        other == SelectIdx(func.params,
                          {i \in DOMAIN func.params : func.params[i].name \notin names})
        dict == [i \in DOMAIN other |->
                    [k |-> other[i].name,
                     v |-> IF other[i].has_default THEN other[i].default ELSE None]]
    IN  IF set_rev THEN Reverse(dict) ELSE dict

\* for k, v in default_param_values.items(): if k not in d: d[k] = v
RECURSIVE FillDefaults(_, _)
FillDefaults(d, defaults) ==
    IF defaults = << >> THEN d
    ELSE FillDefaults(IF Has(d, Head(defaults).k) THEN d
                      ELSE Put(d, Head(defaults).k, Head(defaults).v),
                      Tail(defaults))

\* list_dict_params as the caller passes it: a list of dicts, one dict, or None.
ListKind == "list"
DictKind == "dict"
NoneKind == "none"

AsListOfDicts(list_dict_params) ==
    IF list_dict_params.kind = DictKind THEN <<list_dict_params.dict>>
    ELSE IF list_dict_params.kind = NoneKind THEN <<EmptyDict>>
    ELSE list_dict_params.entries

ProcessListOfDicts(list_dict_params, func, data_params, set_rev) ==
    LET list_ == AsListOfDicts(list_dict_params)
        defaults == DefaultParamValues(func, data_params, set_rev)
    IN  [i \in DOMAIN list_ |-> FillDefaults(list_[i], defaults)]

\* -------------------------------------------------------- _compute_results

\* {f(key): value for key, value in d.items()}, keys[i] being f of the i-th
\* key: a key made twice keeps its first place and takes the later value.
MapKeys(d, keys) ==
    Update(EmptyDict, [i \in DOMAIN d |-> [k |-> keys[i], v |-> d[i].v]])

\* f"{key}{suffix}" with suffix = f"_{name}"
Suffixed(key, name) == key \o Underscore \o name

\* key.split(f"_{func_name}")[0]
StripSuffix(key, func_name) == SplitHead(key, Underscore \o func_name)

UpdatedParams(params, func_name) ==
    MapKeys(params, [i \in DOMAIN params |-> Suffixed(params[i].k, func_name)])

RealParams(updated_params, func_name) ==
    MapKeys(updated_params,
            [i \in DOMAIN updated_params |->
                StripSuffix(updated_params[i].k, func_name)])

\* The first loop over data_set: the items' provenance, suffixed by the
\* parameter each source is bound to.
RECURSIVE DataProvenance(_, _, _)
DataProvenance(data_set, data_param_names, i) ==
    IF i > Len(data_set) THEN EmptyDict
    ELSE Update(MapKeys(data_set[i].prov,
                        [j \in DOMAIN data_set[i].prov |->
                            Suffixed(data_set[i].prov[j].k, data_param_names[i])]),
                DataProvenance(data_set, data_param_names, i + 1))

\* data_values[data_param_names[i]] = item[1]
RECURSIVE DataValues(_, _, _)
DataValues(data_set, data_param_names, i) ==
    IF i > Len(data_set) THEN EmptyDict
    ELSE Update(<<[k |-> data_param_names[i], v |-> data_set[i].data]>>,
                DataValues(data_set, data_param_names, i + 1))

StoredParams(data_set, data_param_names, updated_params, add_new_params) ==
    LET stored_params == DataProvenance(data_set, data_param_names, 1)
    IN  IF add_new_params THEN Update(stored_params, updated_params)
        ELSE stored_params

ParamNames(func) == {func.params[i].name : i \in DOMAIN func.params}

\* func(**data_values, **real_params) binds: no name given twice, no name
\* the function does not have, every parameter without default given.
Binds(func, data_values, real_params) ==
    /\ Keys(data_values) \cap Keys(real_params) = {}
    /\ Keys(data_values) \cup Keys(real_params) \subseteq ParamNames(func)
    /\ \A i \in DOMAIN func.params :
          \/ func.params[i].has_default
          \/ func.params[i].name \in Keys(data_values) \cup Keys(real_params)

\* The arguments the function body sees, in signature order. The compute
\* function of the model returns them as its result.
BoundArguments(func, data_values, real_params) ==
    [i \in DOMAIN func.params |->
        [k |-> func.params[i].name,
         v |-> IF Has(data_values, func.params[i].name)
               THEN Get(data_values, func.params[i].name)
               ELSE IF Has(real_params, func.params[i].name)
                    THEN Get(real_params, func.params[i].name)
                    ELSE func.params[i].default]]

\* if self.zip_data_params: zip(...) else itertools.product(...)
Combinations(zip_data_params, data_combinations, list_dict_params_) ==
    IF zip_data_params
    THEN Zip2(data_combinations, list_dict_params_)
    ELSE Product(<<data_combinations, list_dict_params_>>)

\* One pass of the loop body: the pair appended to result, or the TypeError
\* of the call.
ComputeOne(deco, func, func_name, data_param_names, combination) ==
    LET data_set == combination[1]
        params == combination[2]
        data_values == DataValues(data_set, data_param_names, 1)
        updated_params == UpdatedParams(params, func_name)
        real_params == RealParams(updated_params, func_name)
    IN  IF Binds(func, data_values, real_params)
        THEN [raised |-> FALSE,
              stored_params |-> StoredParams(data_set, data_param_names,
                                             updated_params, deco.add_new_params),
              value |-> BoundArguments(func, data_values, real_params)]
        ELSE [raised |-> TRUE]

\* The loop: it stops at the first call that raises; the calls made before
\* it have happened.
RECURSIVE ComputeLoop(_, _, _, _, _, _)
ComputeLoop(deco, func, func_name, data_param_names, combinations, acc) ==
    IF combinations = << >> THEN acc
    ELSE LET one == ComputeOne(deco, func, func_name, data_param_names,
                               Head(combinations))
         IN  IF one.raised
             THEN [acc EXCEPT !.status = "TypeError"]
             ELSE ComputeLoop(deco, func, func_name, data_param_names,
                              Tail(combinations),
                              [acc EXCEPT
                                 !.result = Append(@, [stored_params |-> one.stored_params,
                                                       value |-> one.value]),
                                 !.calls = Append(@, one.value)])

ComputeResults(deco, data_combinations, list_dict_params, func, func_name, set_rev) ==
    ComputeLoop(deco, func, func_name,
                DataParamNames(func, deco.data_params),
                Combinations(deco.zip_data_params, data_combinations,
                             ProcessListOfDicts(list_dict_params, func,
                                                deco.data_params, set_rev)),
                [status |-> "ok", result |-> << >>, calls |-> << >>])

\* ------------------------------------------------------- __call__.wrapper

\* func_name = self.custom_suffix if self.custom_suffix else func.__name__
\* (custom_suffix None is the empty string here: both are falsy).
FuncName(deco, func) ==
    IF deco.custom_suffix # << >> THEN deco.custom_suffix ELSE func.name

\* An optional dict: dict.update returns None.
NoDict == [none |-> TRUE]
SomeDict(d) == [none |-> FALSE, dict |-> d]

\* (res[0].update({func_name: res[1]}), res[1]): the first component is what
\* update returns.
ResultAsParams(result) ==
    [i \in DOMAIN result |-> [params |-> NoDict, value |-> result[i].value]]

\* final_result = result if self.return_params else [res[1] for res in result]
FinalResult(deco, result) ==
    LET pairs == IF deco.result_as_params THEN ResultAsParams(result)
                 ELSE [i \in DOMAIN result |->
                         [params |-> SomeDict(result[i].stored_params),
                          value |-> result[i].value]]
    IN  IF deco.return_params
        THEN [i \in DOMAIN pairs |-> [with_params |-> TRUE,
                                      params |-> pairs[i].params,
                                      value |-> pairs[i].value]]
        ELSE [i \in DOMAIN pairs |-> [with_params |-> FALSE,
                                      value |-> pairs[i].value]]

Wrapper(deco, func, data_sources, list_dict_params, set_rev) ==
    LET data_sources_ == [i \in DOMAIN data_sources |-> EnsureTuples(data_sources[i])]
        data_combinations == GenerateDataCombinations(deco.zip_data, data_sources_)
        computed == ComputeResults(deco, data_combinations, list_dict_params,
                                   func, FuncName(deco, func), set_rev)
    IN  IF computed.status = "ok"
        THEN [status |-> "ok",
              final_result |-> FinalResult(deco, computed.result),
              calls |-> computed.calls]
        ELSE [status |-> computed.status, calls |-> computed.calls]

\* ------------------------------------------------- the calls of the wrapper

Ch_x == <<"x">>
Ch_k == <<"k">>
Ch_f == <<"f">>
Ch_d == <<"d">>
Ch_x_fy == <<"x", "_", "f", "y">>

\* The names of the data parameters of the functions combined in the model,
\* by position in the signature: a function takes the first n of them.
DataNames == <<Ch_d, <<"e">>, <<"c">>>>

\* The default value of a parameter that has one: no grid value.
ParamDefault == MaxGrid + 1

Param(name, has_default) ==
    [name |-> name, has_default |-> has_default, default |-> ParamDefault]

\* def f(d, e, ..., <grid parameters>)
Func(n, grid_params) ==
    [name |-> Ch_f,
     params |-> [i \in 1 .. n |-> Param(DataNames[i], FALSE)] \o grid_params]

\* The grid parameters of the functions combined in the model.
Signatures ==
    { << >>,
      <<Param(Ch_x, FALSE)>>,
      <<Param(Ch_x, TRUE)>>,
      <<Param(Ch_x_fy, TRUE)>>,
      <<Param(Ch_x, TRUE), Param(Ch_x_fy, TRUE)>> }

\* The value of item j of source i: no two items of a call share it.
ItemValue(i, j) == 10 * i + j

\* A source of bare values and a source of (provenance, value) pairs, the
\* provenance that of an earlier stage whose parameter x took the value j.
BareSource(i, len) == [j \in 1 .. len |-> Bare(ItemValue(i, j))]
PairSource(i, len) ==
    [j \in 1 .. len |-> Pair(<<[k |-> Ch_x, v |-> j], [k |-> Ch_k, v |-> i]>>,
                             ItemValue(i, j))]

\* The grid entry number e over the parameters of a set of positions of the
\* signature's grid parameters: each of them takes the value e.
GridEntry(grid_params, positions, e) ==
    LET chosen == SelectIdx(grid_params, positions)
    IN  [i \in DOMAIN chosen |-> [k |-> chosen[i].name, v |-> e]]

\* The parameter grids over a signature's grid parameters: a list of up to
\* MaxGrid entries, one dict, or None.
GridsOf(grid_params) ==
    UNION {{[kind |-> ListKind,
             entries |-> [e \in 1 .. g |-> GridEntry(grid_params, pos[e], e)]] :
                pos \in [1 .. g -> SUBSET DOMAIN grid_params]} : g \in 0 .. MaxGrid}
    \cup {[kind |-> DictKind, dict |-> GridEntry(grid_params, DOMAIN grid_params, 1)],
          [kind |-> NoneKind]}

Deco(n, zip_data, zip_data_params, add_new_params, return_params, custom_suffix, result_as_params) ==
    [data_params |-> [i \in 1 .. n |-> i],
     zip_data |-> zip_data,
     zip_data_params |-> zip_data_params,
     add_new_params |-> add_new_params,
     return_params |-> return_params,
     custom_suffix |-> custom_suffix,
     result_as_params |-> result_as_params]

\* Calls that vary the shape of the data: the number of sources, their
\* lengths, their zip flags, the number of grid entries, zip_with_params.
InitShapes ==
    \E n \in DOMAIN DataNames :
    \E lens \in [1 .. n -> 0 .. MaxLen], zip_data \in [1 .. n -> 0 .. MaxFlag] :
    \E g \in 0 .. MaxGrid, zip_data_params \in BOOLEAN :
        inp = [deco |-> Deco(n, zip_data, zip_data_params, TRUE, TRUE, << >>, FALSE),
               func |-> Func(n, <<Param(Ch_x, TRUE)>>),
               data_sources |-> [i \in 1 .. n |-> BareSource(i, lens[i])],
               list_dict_params |->
                   [kind |-> ListKind,
                    entries |-> [e \in 1 .. g |-> <<[k |-> Ch_x, v |-> e]>>]],
               set_rev |-> FALSE]

\* Calls that vary the names and the provenance: the signature, the keys of
\* the grid entries, the suffix, the items' provenance, the decorator's
\* switches; one or two sources of two items each, not zipped.
InitNames ==
    \E n \in 1 .. 2, with_prov \in BOOLEAN :
    \E grid_params \in Signatures :
    \E list_dict_params \in GridsOf(grid_params) :
    \E set_rev \in (IF Len(grid_params) > 1 THEN BOOLEAN ELSE {FALSE}) :
    \E add_new_params \in BOOLEAN, return_params \in BOOLEAN,
       result_as_params \in BOOLEAN, custom_suffix \in {<< >>, Ch_d} :
        inp = [deco |-> Deco(n, [i \in 1 .. n |-> 0], FALSE, add_new_params,
                             return_params, custom_suffix, result_as_params),
               func |-> Func(n, grid_params),
               data_sources |-> [i \in 1 .. n |->
                                    IF with_prov THEN PairSource(i, 2)
                                    ELSE BareSource(i, 2)],
               list_dict_params |-> list_dict_params,
               set_rev |-> set_rev]

InitNoBlock ==
    /\ block = [num_outputs |-> 0, has_names |-> FALSE, configured |-> << >>,
                output_names |-> << >>]
    /\ ports = << >>
    /\ exec_time = 0
    /\ last = [status |-> "none"]

InitIdleNode ==
    /\ InitNoBlock
    /\ env = << >>

InitCombine(inputs) ==
    /\ inputs
    /\ pc = "ready"
    /\ ret = [status |-> "none"]
    /\ calls = << >>
    /\ InitIdleNode

\* wrapper(*data_sources, list_dict_params=...): one call of the decorated
\* function, from its arguments to what it returns or raises.
Combine ==
    /\ pc = "ready"
    /\ LET r == Wrapper(inp.deco, inp.func, inp.data_sources,
                        inp.list_dict_params, inp.set_rev)
       IN  /\ ret' = IF r.status = "ok"
                     THEN [status |-> "ok", final_result |-> r.final_result]
                     ELSE [status |-> r.status]
           /\ calls' = r.calls
    /\ pc' = "done"
    /\ UNCHANGED <<inp, nodeVars, env>>

NextCombine == Combine

InitShapesCall == InitCombine(InitShapes)
InitNamesCall == InitCombine(InitNames)

InitAnyCall == InitCombine(InitShapes \/ InitNames)

SpecShapes == InitShapesCall /\ [][NextCombine]_vars
SpecNames == InitNamesCall /\ [][NextCombine]_vars
SpecCombine == InitAnyCall /\ [][NextCombine]_vars

\* ------------------------------------------------------------ the adapter's run

InitNode ==
    /\ \E n \in 0 .. MaxOutputs, m \in 0 .. MaxOutputs + 1, has \in BOOLEAN :
          block = [num_outputs |-> n,
                   has_names |-> has,
                   configured |-> IF has THEN SubSeq(ConfiguredLabels, 1, m) ELSE << >>,
                   output_names |-> OutputNames(has, SubSeq(ConfiguredLabels, 1, m), n)]
    /\ ports = [l \in Range(block.output_names) |-> None]
    /\ exec_time = 0
    /\ last = [status |-> "none"]
    /\ env = << >>

\* compute_func_wrapper, the compute function returning normally.
Invoke ==
    /\ exec_time < MaxInvocations
    /\ \E outputs \in Produced :
          LET pub == Published(outputs, block.output_names)
          IN  /\ exec_time' = exec_time + 1
              /\ ports' = SetInterfaces(ports, pub)
              /\ last' = [status |-> "ok", outputs |-> outputs, published |-> pub]
    /\ calls' = Append(calls, "returned")
    /\ UNCHANGED <<block, inp, pc, ret, env>>

\* The execution time is recorded although the compute function raised.
InvokeRaiseTimed ==
    /\ Len(calls) < MaxCalls
    /\ last' = [status |-> "ComputeError"]
    /\ calls' = Append(calls, "raised")
    /\ exec_time' = exec_time + 1
    /\ UNCHANGED <<block, ports, inp, pc, ret, env>>

\* compute_func_wrapper, the compute function raising: the one call of
\* compute_func_wrapper_ is in no try block and no loop, so the exception
\* leaves the wrapper before exec_time is set and before any set_interface
\* call.
InvokeRaise ==
    /\ Len(calls) < MaxCalls
    /\ last' = [status |-> "ComputeError"]
    /\ calls' = Append(calls, "raised")
    /\ UNCHANGED <<block, ports, exec_time, inp, pc, ret, env>>

NextNode == Invoke \/ InvokeRaise

InitIdleCombine ==
    /\ inp = [deco |-> "none"]
    /\ pc = "idle"
    /\ ret = [status |-> "none"]
    /\ calls = << >>

InitNodeRun == InitNode /\ InitIdleCombine

SpecNode == InitNodeRun /\ [][NextNode]_vars

\* ================================================================== claims

\* The number of values an invocation's compute function produced.
NumProduced(outputs) == IF outputs.isTuple THEN Len(outputs.elems) ELSE 1

\* The i-th value an invocation's compute function produced.
ProducedValue(outputs, i) == IF outputs.isTuple THEN outputs.elems[i] ELSE outputs.value

\* C1: an invocation whose compute function produces fewer values than the
\* node has declared output slots fails with ShapeMismatch: no invocation
\* completes successfully with fewer produced values than declared slots.
C1_MissingOutputsFail ==
    last.status = "ok" => NumProduced(last.outputs) >= Len(block.output_names)

\* C2: when the compute function returns at least as many values as there
\* are declared slots, the invocation publishes exactly one value per
\* declared slot, the i-th produced value to the i-th label in declared
\* order (a non-tuple result being one value), ignores the values beyond the
\* declared slots, and the interfaces then hold those values.
C2_OneValuePerSlotInOrder ==
    (last.status = "ok" /\ NumProduced(last.outputs) >= Len(block.output_names)) =>
        /\ Len(last.published) = Len(block.output_names)
        /\ \A i \in DOMAIN block.output_names :
              /\ last.published[i].name = block.output_names[i]
              /\ last.published[i].value = ProducedValue(last.outputs, i)
              /\ ports[block.output_names[i]] = ProducedValue(last.outputs, i)

\* C2 happens: a tuple of three values, the first two different, published to
\* two declared slots, the third value ignored.
C2_Witness ==
    /\ last.status = "ok"
    /\ last.outputs.isTuple
    /\ Len(last.outputs.elems) = 3
    /\ Len(block.output_names) = 2
    /\ last.outputs.elems[1] # last.outputs.elems[2]
    /\ ports[block.output_names[2]] = last.outputs.elems[2]
\* --------------------------------------------------------- claims, combine

Done == pc = "done"

NumSources == Len(inp.data_sources)

\* Two sources share a non-zero zip flag and differ in length.
ZipLengthsDiffer ==
    \E i, j \in 1 .. NumSources :
        /\ inp.deco.zip_data[i] # 0
        /\ inp.deco.zip_data[i] = inp.deco.zip_data[j]
        /\ Len(inp.data_sources[i]) # Len(inp.data_sources[j])

\* The grid entries as the caller passed them.
GivenEntries == AsListOfDicts(inp.list_dict_params)

\* The data combinations of the call.
DataCombinations ==
    GenerateDataCombinations(
        inp.deco.zip_data,
        [i \in 1 .. NumSources |-> EnsureTuples(inp.data_sources[i])])

RECURSIVE ProductOf(_)
ProductOf(numbers) ==
    IF numbers = << >> THEN 1 ELSE Head(numbers) * ProductOf(Tail(numbers))

\* The length of every don't-zip source, and of the first source of every
\* non-zero flag, multiplied together.
ExpectedDataCombinations ==
    ProductOf([i \in 1 .. NumSources |->
        IF inp.deco.zip_data[i] = 0
           \/ \A j \in 1 .. i - 1 : inp.deco.zip_data[j] # inp.deco.zip_data[i]
        THEN Len(inp.data_sources[i])
        ELSE 1])

\* C3: combining sources that share a non-zero zip flag and differ in length
\* fails with LengthMismatch, the compute function not invoked and no result
\* list returned.
C3_ZipLengthMismatchRaises ==
    (Done /\ ZipLengthsDiffer) => (ret.status = "LengthMismatch" /\ calls = << >>)

\* C4: with zip_with_params the data combinations and the grid entries are
\* paired positionally and none of either is dropped: a call that returns a
\* result list returns as many results as there are data combinations and as
\* there are grid entries.
C4_ZipWithParamsDropsNothing ==
    (Done /\ inp.deco.zip_data_params /\ ret.status = "ok") =>
        /\ Len(ret.final_result) = Len(DataCombinations)
        /\ Len(ret.final_result) = Len(GivenEntries)

\* C5: without zip_with_params, and the sources of each non-zero flag of one
\* length, a call that returns returns (product of the don't-zip sources'
\* lengths) x (the common length of each non-zero flag's sources) x (number
\* of grid entries) results, and has invoked the compute function once per
\* result.
C5_CrossProductCardinality ==
    (Done /\ ~inp.deco.zip_data_params /\ ~ZipLengthsDiffer /\ ret.status = "ok") =>
        /\ Len(ret.final_result) = ExpectedDataCombinations * Len(GivenEntries)
        /\ Len(calls) = Len(ret.final_result)

\* C5 happens: two zipped sources of two items around a don't-zip source of
\* two items, and a grid of two entries: 2 x 2 x 2 results.
C5_Witness ==
    /\ Done
    /\ ~inp.deco.zip_data_params
    /\ inp.deco.zip_data = <<1, 0, 1>>
    /\ \A i \in 1 .. 3 : Len(inp.data_sources[i]) = 2
    /\ Len(GivenEntries) = 2
    /\ ret.status = "ok"
    /\ Len(ret.final_result) = 8
    /\ Len(calls) = 8

\* The values of the items of source i.
SourceValues(i) == {inp.data_sources[i][j].val : j \in DOMAIN inp.data_sources[i]}

\* C6: for every assignment of zip flags, the i-th component of every
\* generated data combination is an item of the i-th source, and every
\* invocation of the compute function receives, under the name of the i-th
\* data parameter, an item of the i-th source.
C6_ComponentsFromTheirSources ==
    Done =>
        /\ \A c \in DOMAIN DataCombinations :
              /\ Len(DataCombinations[c]) = NumSources
              /\ \A i \in 1 .. NumSources :
                    DataCombinations[c][i].data.val \in SourceValues(i)
        /\ \A c \in DOMAIN calls : \A i \in 1 .. NumSources :
              /\ Has(calls[c], DataNames[i])
              /\ Get(calls[c], DataNames[i]).val \in SourceValues(i)

\* C6 happens: a don't-zip source stands between two zipped sources, and the
\* second invocation takes the second items of the zipped sources and the
\* first item of the other.
C6_Witness ==
    /\ Done
    /\ inp.deco.zip_data = <<1, 0, 1>>
    /\ Len(calls) = 4
    /\ Get(calls[2], DataNames[1]).val = ItemValue(1, 2)
    /\ Get(calls[2], DataNames[2]).val = ItemValue(2, 1)
    /\ Get(calls[2], DataNames[3]).val = ItemValue(3, 2)
\* The calls of the names family take the cross product of the data
\* combinations and the grid entries, the entries varying fastest: the grid
\* entry and the data combination of the c-th invocation.
EntryIndex(c) == ((c - 1) % Len(GivenEntries)) + 1
GivenEntryOf(c) == GivenEntries[EntryIndex(c)]
DataSetOf(c) == DataCombinations[((c - 1) \div Len(GivenEntries)) + 1]

TheFuncName == FuncName(inp.deco, inp.func)

\* C7: the compute function is invoked with every grid value bound to
\* exactly the name the grid entry gives it, whatever the parameter name and
\* the function name or custom suffix.
C7_GridValuesBoundToTheirNames ==
    Done =>
        /\ ret.status = "ok"
        /\ \A c \in DOMAIN calls : \A p \in Keys(GivenEntryOf(c)) :
              Get(calls[c], p) = Get(GivenEntryOf(c), p)

\* A parameter without default that is no data parameter is in no grid entry.
RequiredParameterAbsent ==
    /\ GivenEntries # << >>
    /\ \E i \in DOMAIN inp.func.params :
          /\ ~inp.func.params[i].has_default
          /\ inp.func.params[i].name
                \notin Range(DataParamNames(inp.func, inp.deco.data_params))
          /\ \A e \in DOMAIN GivenEntries :
                ~Has(GivenEntries[e], inp.func.params[i].name)

\* C8: when a parameter without default that is no data parameter is in no
\* grid entry, the call fails with MissingParameter and the compute function
\* is not invoked with a substituted value.
C8_MissingParameterRaises ==
    (Done /\ RequiredParameterAbsent) =>
        (ret.status = "MissingParameter" /\ calls = << >>)

\* The provenance accumulated by the loop for each result, before folding.
Accumulated ==
    ComputeResults(inp.deco, DataCombinations, inp.list_dict_params, inp.func,
                   TheFuncName, inp.set_rev).result

\* C9: with result_as_params, the first element of every returned pair is a
\* provenance dictionary that holds all provenance accumulated for the call
\* and maps the function's name to the call's result.
C9_ResultFoldedIntoProvenance ==
    (Done /\ inp.deco.result_as_params /\ inp.deco.return_params
          /\ ret.status = "ok") =>
        \A i \in DOMAIN ret.final_result :
            /\ ~ret.final_result[i].params.none
            /\ Has(ret.final_result[i].params.dict, TheFuncName)
            /\ Get(ret.final_result[i].params.dict, TheFuncName)
                  = ret.final_result[i].value
            /\ \A k \in Keys(Accumulated[i].stored_params) \ {TheFuncName} :
                  /\ Has(ret.final_result[i].params.dict, k)
                  /\ Get(ret.final_result[i].params.dict, k)
                        = Get(Accumulated[i].stored_params, k)

\* C10: with provenance enabled, the provenance dictionary of every result
\* holds, for each parameter p of the grid entry used, the key p_<funcname>
\* with the grid value, and for each provenance entry k of the item taken
\* from the source bound to parameter d, the key k_d with that entry's value.
C10_ProvenanceKeys ==
    (Done /\ inp.deco.add_new_params /\ inp.deco.return_params
          /\ ret.status = "ok") =>
        \A i \in DOMAIN ret.final_result :
            /\ ~ret.final_result[i].params.none
            /\ \A p \in Keys(GivenEntryOf(i)) :
                  /\ Has(ret.final_result[i].params.dict, Suffixed(p, TheFuncName))
                  /\ Get(ret.final_result[i].params.dict, Suffixed(p, TheFuncName))
                        = Get(GivenEntryOf(i), p)
            /\ \A s \in 1 .. NumSources : \A k \in Keys(DataSetOf(i)[s].prov) :
                  /\ Has(ret.final_result[i].params.dict, Suffixed(k, DataNames[s]))
                  /\ Get(ret.final_result[i].params.dict, Suffixed(k, DataNames[s]))
                        = Get(DataSetOf(i)[s].prov, k)

\* ========================================================= grid expansion
\* generate_combinations (src/modules/default/blocks/default_blocks.py).
\*
\* A value of a grid is a tree: a scalar [t |-> "num" | "bool" | "str", n]
\* or a dict [t |-> "dict", items], items being an association list with
\* one-word keys.  Numbers are exact; a str is named by a number.

MaxTo == 2       \* "from" and "to" of a range: 0..MaxTo
MaxStep == 3     \* "step" of a range: 1..MaxStep
MaxAlt == 2      \* values of a mapping of alternatives: 1..MaxAlt

Num(n) == [t |-> "num", n |-> n, items |-> << >>]
Str(n) == [t |-> "str", n |-> n, items |-> << >>]
Bool(n) == [t |-> "bool", n |-> n, items |-> << >>]
Dict(items) == [t |-> "dict", n |-> 0, items |-> items]

Entry(k, v) == [k |-> k, v |-> v]

\* np.arange over the half-open interval that ends at "to" itself.
RECURSIVE ARangeHalfOpen(_, _, _)
ARangeHalfOpen(start, stop2, step) ==
    IF 2 * start + step < stop2
    THEN <<Num(start)>> \o ARangeHalfOpen(start + step, stop2, step)
    ELSE << >>

\* np.arange(start, stop, step).tolist() with stop = to + step / 2: the values
\* start + i * step below the stop (compared doubled, so that the half step
\* stays a whole number).
RECURSIVE ARange(_, _, _)
ARange(start, stop2, step) ==
    IF 2 * start < stop2
    THEN <<Num(start)>> \o ARange(start + step, stop2, step)
    ELSE << >>

\* list(param.values()): every value, a repeated one as often as it is given.
ListOfValues(items) == [i \in DOMAIN items |-> items[i].v]

\* list(set(param.values())): the distinct values; a set of small numbers is
\* listed in ascending order.
SetOfValues(items) ==
    LET ns == Sorted({items[i].v.n : i \in DOMAIN items})
    IN  [i \in DOMAIN ns |-> Num(ns[i])]

\* get_values(param): "TypeError" is `"from" in param` on a number or a bool,
\* or set() of values that are dicts.
GetValues(param) ==
    IF param.t = "dict"
    THEN IF Has(param.items, "from") /\ Has(param.items, "to") /\ Has(param.items, "step")
         THEN [status |-> "ok",
               values |-> ARange(Get(param.items, "from").n,
                                 2 * Get(param.items, "to").n + Get(param.items, "step").n,
                                 Get(param.items, "step").n)]
         ELSE IF \E i \in DOMAIN param.items : param.items[i].v.t = "dict"
              THEN [status |-> "TypeError", values |-> << >>]
              ELSE [status |-> "ok", values |-> SetOfValues(param.items)]
    ELSE IF param.t = "str"
         THEN [status |-> "ok", values |-> <<param>>]
         ELSE [status |-> "TypeError", values |-> << >>]

\* extract_param_combinations(d): the cross product of the value lists of d's
\* parameters, each combination a dict over d's keys.
ExtractParamCombinations(d) ==
    IF d.t # "dict" THEN [status |-> "AttributeError", combos |-> << >>]
    ELSE IF d.items = << >> THEN [status |-> "ValueError", combos |-> << >>]
    ELSE LET got == [i \in DOMAIN d.items |-> GetValues(d.items[i].v)]
         IN  IF \E i \in DOMAIN got : got[i].status # "ok"
             THEN [status |-> "TypeError", combos |-> << >>]
             ELSE LET prod == Product([i \in DOMAIN got |-> got[i].values])
                  IN  [status |-> "ok",
                       combos |-> [c \in DOMAIN prod |->
                                     Dict([i \in DOMAIN d.items |->
                                             Entry(d.items[i].k, prod[c][i])])]]

Max(S) == CHOOSE m \in S : \A x \in S : x <= m

\* depth(x): the nesting depth of a dict; an empty dict and a scalar have depth 0.
RECURSIVE Depth(_)
Depth(x) ==
    IF x.t = "dict" /\ x.items # << >>
    THEN 1 + Max({Depth(x.items[i].v) : i \in DOMAIN x.items})
    ELSE 0

\* params_ = params if depth(params) == 3 else {"tmp": params}
Params_(params) ==
    IF Depth(params) = 3 THEN params ELSE Dict(<<Entry("tmp", params)>>)

\* section_combinations and all_combinations_: the cross product over the
\* sections of each section's combinations, each a dict over the sections.
AllCombinations(params) ==
    LET params_ == Params_(params)
        sections == [i \in DOMAIN params_.items |->
                        ExtractParamCombinations(params_.items[i].v)]
    IN  IF \E i \in DOMAIN sections : sections[i].status # "ok"
        THEN [status |-> sections[CHOOSE i \in DOMAIN sections :
                                     /\ sections[i].status # "ok"
                                     /\ \A j \in 1 .. i - 1 : sections[j].status = "ok"].status,
              combos |-> << >>]
        ELSE LET prod == Product([i \in DOMAIN sections |-> sections[i].combos])
             IN  [status |-> "ok",
                  combos |-> [c \in DOMAIN prod |->
                                Dict([i \in DOMAIN params_.items |->
                                        Entry(params_.items[i].k, prod[c][i])])]]

\* replace_item without its recursion: the key of obj itself only.
ReplaceItemAtTop(obj, key, replace_value) ==
    Dict([i \in DOMAIN obj.items |->
            IF obj.items[i].k = key THEN Entry(key, replace_value) ELSE obj.items[i]])

\* replace_item(obj, key, replace_value): the nested dicts first, then the
\* key of obj itself.
RECURSIVE ReplaceItem(_, _, _)
ReplaceItem(obj, key, replace_value) ==
    Dict([i \in DOMAIN obj.items |->
            IF obj.items[i].k = key THEN Entry(key, replace_value)
            ELSE IF obj.items[i].v.t = "dict"
                 THEN Entry(obj.items[i].k,
                            ReplaceItem(obj.items[i].v, key, replace_value))
                 ELSE obj.items[i]])

\* if st.session_state["random_seed"]: the host keeps a dict there, one flag
\* per loaded configuration; a dict is true when it is not empty.
Truthy(random_seed) == random_seed # << >>

\* The seed loop: combination i gets seeds[i] at every "seed" key.
ReplaceSeeds(all_combinations, seeds) ==
    [i \in DOMAIN all_combinations |->
        ReplaceItem(all_combinations[i], "seed", Num(seeds[i]))]

\* Every combination reduced to what it holds under its first section.
UnwrapFirstSection(params, all_combinations) ==
    [i \in DOMAIN all_combinations |-> all_combinations[i].items[1].v]

\* The last statement: the combinations themselves for a grid of depth 3,
\* else what each holds under "tmp".
Unwrap(params, all_combinations) ==
    IF Depth(params) = 3 THEN all_combinations
    ELSE [i \in DOMAIN all_combinations |-> Get(all_combinations[i].items, "tmp")]

\* generate_combinations(params), seeds being the numbers np.random.randint
\* draws when the mode is on.
GenerateCombinations(params, random_seed, seeds) ==
    LET all == AllCombinations(params)
    IN  IF all.status # "ok" THEN [status |-> all.status]
        ELSE [status |-> "ok",
              combos |-> Unwrap(params,
                                IF Truthy(random_seed)
                                THEN ReplaceSeeds(all.combos, seeds)
                                ELSE all.combos)]

\* ------------------------------------------------------ the grids expanded

SeedVals == {101, 102}

RangeSpec(from, to, step) ==
    Dict(<<Entry("from", Num(from)), Entry("to", Num(to)), Entry("step", Num(step))>>)

RangeSpecs ==
    {RangeSpec(from, to, step) : from \in 0 .. MaxTo, to \in 0 .. MaxTo, step \in 1 .. MaxStep}

\* A mapping of named alternatives, one or two of them.
Alternatives ==
    {Dict(<<Entry("a", Num(v))>>) : v \in 1 .. MaxAlt}
    \cup {Dict(<<Entry("a", Num(v)), Entry("b", Num(w))>>) : v, w \in 1 .. MaxAlt}

Scalars == {Num(1), Bool(1), Str(1)}

UpwardRangeSpecs ==
    {r \in RangeSpecs : Get(r.items, "from").n <= Get(r.items, "to").n}

LeafSpecs == UpwardRangeSpecs \cup Alternatives \cup Scalars

\* {"g": {"x": l}}, {"g": {"x": l, p: m}}, {"g": {"x": l}, "h": {p: m}} and
\* the grid without groups {"x": l}.
OneGroup(l) == Dict(<<Entry("g", Dict(<<Entry("x", l)>>))>>)
OneGroupOfTwo(l, p, m) == Dict(<<Entry("g", Dict(<<Entry("x", l), Entry(p, m)>>))>>)
TwoGroups(l, p, m) ==
    Dict(<<Entry("g", Dict(<<Entry("x", l)>>)), Entry("h", Dict(<<Entry(p, m)>>))>>)
NoGroup(l) == Dict(<<Entry("x", l)>>)

Grids ==
    {OneGroup(l) : l \in LeafSpecs}
    \cup {NoGroup(l) : l \in LeafSpecs}
    \cup {OneGroupOfTwo(l, "y", m) : l, m \in LeafSpecs}
    \cup {TwoGroups(l, "y", m) : l, m \in LeafSpecs}

SeedGrids ==
    {OneGroupOfTwo(l, "seed", m) : l \in Alternatives \cup Scalars, m \in LeafSpecs}
    \cup {TwoGroups(l, "seed", m) : l \in Alternatives \cup Scalars, m \in LeafSpecs}
    \cup {Dict(<<Entry("x", l), Entry("seed", m)>>) : l, m \in Alternatives}

\* st.session_state["random_seed"] as nodes_workflow.py keeps it: no
\* configuration loaded, or one loaded with its flag on or off.
RandomSeedStates == {<< >>, <<Entry("config", TRUE)>>, <<Entry("config", FALSE)>>}

InitGrid ==
    \/ \E params \in Grids :
          inp = [params |-> params, random_seed |-> << >>]
    \/ \E params \in SeedGrids, random_seed \in RandomSeedStates :
          inp = [params |-> params, random_seed |-> random_seed]

InitExpand ==
    /\ InitGrid
    /\ pc = "ready"
    /\ ret = [status |-> "none"]
    /\ calls = << >>
    /\ InitIdleNode

\* One call of generate_combinations(params).
Expand ==
    /\ pc = "ready"
    /\ LET all == AllCombinations(inp.params)
           drawn == IF all.status = "ok" /\ Truthy(inp.random_seed)
                    THEN Len(all.combos) ELSE 0
       IN  \E seeds \in [1 .. drawn -> SeedVals] :
              LET r == GenerateCombinations(inp.params, inp.random_seed, seeds)
              IN  ret' = IF r.status = "ok"
                         THEN [status |-> "ok", combos |-> r.combos, seeds |-> seeds]
                         ELSE [status |-> r.status]
    /\ pc' = "done"
    /\ UNCHANGED <<inp, calls, nodeVars, env>>

NextGrid == Expand

SpecGrid == InitExpand /\ [][NextGrid]_vars

\* ---------------------------------------------------- claims, grid expansion

\* What a combination holds for parameter p of group g.
At(combo, g, p) == Get(Get(combo.items, g).items, p)

ModeActive == Truthy(inp.random_seed)

\* The example grid {"g": {"x": {"from": 0, "to": 2, "step": 1}}}.
ExampleGrid == OneGroup(RangeSpec(0, 2, 1))

\* C11 as stated: the example grid expands to the list of the mappings
\* {"x": 0}, {"x": 1}, {"x": 2} of the parameter name to its value.
C11_ExampleYieldsFlatMappings ==
    (Done /\ inp.params = ExampleGrid /\ ~ModeActive) =>
        /\ ret.status = "ok"
        /\ ret.combos = <<Dict(<<Entry("x", Num(0))>>),
                          Dict(<<Entry("x", Num(1))>>),
                          Dict(<<Entry("x", Num(2))>>)>>

\* C11: the example grid expands to the list {"g": {"x": 0}}, {"g": {"x": 1}},
\* {"g": {"x": 2}}; every combination of a three-level grid with one group
\* maps the group's name to the mapping of its parameter names to values.
C11_ExampleYieldsGroupedMappings ==
    /\ (Done /\ inp.params = ExampleGrid /\ ~ModeActive) =>
          /\ ret.status = "ok"
          /\ ret.combos = <<OneGroup(Num(0)), OneGroup(Num(1)), OneGroup(Num(2))>>
    /\ \A l \in UpwardRangeSpecs \cup Alternatives :
          (Done /\ inp.params = OneGroup(l) /\ ret.status = "ok") =>
              \A c \in DOMAIN ret.combos :
                  /\ Keys(ret.combos[c].items) = {"g"}
                  /\ Keys(Get(ret.combos[c].items, "g").items) = {"x"}
                  /\ At(ret.combos[c], "g", "x").t = "num"

C11_Witness ==
    /\ Done
    /\ inp.params = ExampleGrid
    /\ ret.status = "ok"
    /\ Len(ret.combos) = 3
    /\ At(ret.combos[3], "g", "x") = Num(2)

\* C12: a leaf that is a literal scalar expands to that one value and the
\* expansion does not raise: in a grid {"g": {"x": scalar}, "h": {"y": spec}}
\* every combination holds the scalar for x.
C12_ScalarLeafIsSingleton ==
    \A l \in Scalars, m \in UpwardRangeSpecs \cup Alternatives :
        (Done /\ inp.params = TwoGroups(l, "y", m)) =>
            /\ ret.status = "ok"
            /\ \A c \in DOMAIN ret.combos : At(ret.combos[c], "g", "x") = l

\* C13: a range with step > 0 and from <= to expands to values from + i * step
\* that all lie in [from, to].
C13_RangeStaysInsideInterval ==
    \A r \in UpwardRangeSpecs :
        (Done /\ inp.params = OneGroup(r)) =>
            /\ ret.status = "ok"
            /\ \A c \in DOMAIN ret.combos :
                  LET v == At(ret.combos[c], "g", "x").n
                      from == Get(r.items, "from").n
                      to == Get(r.items, "to").n
                      step == Get(r.items, "step").n
                  IN  /\ from <= v /\ v <= to
                      /\ \E i \in 0 .. MaxTo : v = from + i * step

\* C14: a range whose span to - from is a multiple of its step expands to
\* from, from + step, ..., to, the endpoint included.
C14_ExactRangeIncludesEndpoint ==
    \A r \in UpwardRangeSpecs :
        LET from == Get(r.items, "from").n
            to == Get(r.items, "to").n
            step == Get(r.items, "step").n
        IN  (Done /\ inp.params = OneGroup(r) /\ (to - from) % step = 0) =>
                /\ ret.status = "ok"
                /\ Len(ret.combos) = ((to - from) \div step) + 1
                /\ \A c \in DOMAIN ret.combos :
                      At(ret.combos[c], "g", "x") = Num(from + (c - 1) * step)
                /\ At(ret.combos[Len(ret.combos)], "g", "x") = Num(to)

\* {from: 0, to: 1, step: 0.5} counted in halves.
C14_Witness ==
    /\ Done
    /\ inp.params = ExampleGrid
    /\ ret.status = "ok"
    /\ [c \in DOMAIN ret.combos |-> At(ret.combos[c], "g", "x").n] = <<0, 1, 2>>

\* The distinct values a leaf stands for: the numbers from, from + step, ...
\* below to + step / 2 of a range, the values of a mapping of alternatives,
\* the scalar itself.
ValueSet(l) ==
    IF l.t # "dict" THEN {l}
    ELSE IF Keys(l.items) = {"from", "to", "step"}
         THEN LET from == Get(l.items, "from").n
                  to == Get(l.items, "to").n
                  step == Get(l.items, "step").n
              IN  {Num(from + i * step) : i \in {j \in 0 .. MaxTo : 2 * (from + j * step) < 2 * to + step}}
         ELSE {l.items[i].v : i \in DOMAIN l.items}

\* The expansion of a grid with leaves l (parameter x of group g) and m
\* (parameter q of group h) is the cross product of their value sets.
IsCrossProduct(g, h, q, l, m) ==
    /\ Len(ret.combos) = Cardinality(ValueSet(l)) * Cardinality(ValueSet(m))
    /\ \A a \in ValueSet(l), b \in ValueSet(m) :
          Cardinality({c \in DOMAIN ret.combos :
                          /\ At(ret.combos[c], g, "x") = a
                          /\ At(ret.combos[c], h, q) = b}) = 1

RaisingScalars == {Num(1), Bool(1)}

Expanded == Unwrap(inp.params, AllCombinations(inp.params).combos)

\* Every "seed" key of combination c, at the top or inside a group, holds s.
SeedKeysHold(c, s) ==
    \A i \in DOMAIN c.items :
        /\ c.items[i].k = "seed" => c.items[i].v = s
        /\ (c.items[i].k # "seed" /\ c.items[i].v.t = "dict") =>
              \A j \in DOMAIN c.items[i].v.items :
                  c.items[i].v.items[j].k = "seed" => c.items[i].v.items[j].v = s

\* Combination c has the keys of c0 in the same places and, under every key
\* that is not "seed", what c0 has.
OtherFieldsKept(c, c0) ==
    /\ DOMAIN c.items = DOMAIN c0.items
    /\ \A i \in DOMAIN c.items :
          /\ c.items[i].k = c0.items[i].k
          /\ c.items[i].k # "seed" =>
                IF c0.items[i].v.t # "dict" THEN c.items[i].v = c0.items[i].v
                ELSE /\ c.items[i].v.t = "dict"
                     /\ DOMAIN c.items[i].v.items = DOMAIN c0.items[i].v.items
                     /\ \A j \in DOMAIN c.items[i].v.items :
                           /\ c.items[i].v.items[j].k = c0.items[i].v.items[j].k
                           /\ c.items[i].v.items[j].k # "seed" =>
                                 c.items[i].v.items[j].v = c0.items[i].v.items[j].v

\* C16: with the random-seed mode on, every "seed" key of combination i holds
\* the integer drawn for it whatever the grid said, its other fields and the
\* number of combinations are those of the expansion; with the mode off the
\* combinations are the expansion itself.
C16_SeedsOverwrittenOthersKept ==
    (Done /\ ret.status = "ok") =>
        IF ModeActive
        THEN /\ Len(ret.combos) = Len(Expanded)
             /\ Len(ret.seeds) = Len(Expanded)
             /\ \A i \in DOMAIN ret.combos :
                   /\ ret.seeds[i] \in SeedVals
                   /\ SeedKeysHold(ret.combos[i], Num(ret.seeds[i]))
                   /\ OtherFieldsKept(ret.combos[i], Expanded[i])
        ELSE ret.combos = Expanded

\* {"g": {"x": {"a": 1, "b": 2}, "seed": {"from": 0, "to": 0, "step": 1}}} with
\* the mode on: two combinations, two different seeds, none the grid's 0.
C16_Witness ==
    /\ Done
    /\ ModeActive
    /\ inp.params = OneGroupOfTwo(Dict(<<Entry("a", Num(1)), Entry("b", Num(2))>>),
                                  "seed", RangeSpec(0, 0, 1))
    /\ ret.status = "ok"
    /\ Len(ret.combos) = 2
    /\ At(ret.combos[1], "g", "seed") = Num(101)
    /\ At(ret.combos[2], "g", "seed") = Num(102)
    /\ At(ret.combos[2], "g", "x") = Num(2)

\* ================================================== return-arity inference
\* find_return_value_count (src/gen_block/gen_block.py).
\*
\* A function body is the sequence of its top-level statements.  A statement
\* is a return, a compound statement (an if) holding a return in its block,
\* or a statement without return.  A return's value is a literal tuple of n
\* elements ("tuple"), the constant None ("none"), another constant
\* ("const"), any other expression ("other"), or is absent ("bare").

MaxStmts == 2    \* top-level statements of a function body: 0..MaxStmts

ReturnKinds == {"none", "bare", "const", "other"}

ReturnValues ==
    {[kind |-> "tuple", n |-> n] : n \in 0 .. MaxOutputs}
    \cup {[kind |-> k, n |-> 0] : k \in ReturnKinds}

Statements ==
    {[stmt |-> "return", value |-> v] : v \in ReturnValues}
    \cup {[stmt |-> "if", value |-> v] : v \in ReturnValues}
    \cup {[stmt |-> "pass", value |-> [kind |-> "none", n |-> 0]]}

RECURSIVE SeqsUpTo(_, _)
SeqsUpTo(S, n) ==
    IF n = 0 THEN {<< >>}
    ELSE LET shorter == SeqsUpTo(S, n - 1)
         IN  shorter \cup {Append(s, x) : s \in {t \in shorter : Len(t) = n - 1}, x \in S}

Bodies == SeqsUpTo(Statements, MaxStmts)

\* The branches on node.value: an ast.Tuple counts its elements, the constant
\* None counts 0, and everything else, an absent value included, counts 1.
CountOf(value) ==
    IF value.kind = "tuple" THEN value.n
    ELSE IF value.kind = "none" THEN 0
    ELSE 1

\* The walk over the function definition: every return that is a statement
\* of the body itself sets the count, in body order; the last one stays.
RECURSIVE WalkReturns(_, _)
WalkReturns(body, return_value_count) ==
    IF body = << >> THEN return_value_count
    ELSE WalkReturns(Tail(body),
                     IF Head(body).stmt = "return"
                     THEN CountOf(Head(body).value)
                     ELSE return_value_count)

FindReturnValueCount(body) == WalkReturns(body, 0)

InitArity ==
    /\ \E body \in Bodies : inp = [body |-> body]
    /\ pc = "ready"
    /\ ret = [status |-> "none"]
    /\ calls = << >>
    /\ InitIdleNode

\* num_outputs = find_return_value_count(compute_function)
InferArity ==
    /\ pc = "ready"
    /\ ret' = [status |-> "ok", count |-> FindReturnValueCount(inp.body)]
    /\ pc' = "done"
    /\ UNCHANGED <<inp, calls, nodeVars, env>>

NextArity == InferArity

SpecArity == InitArity /\ [][NextArity]_vars

\* --------------------------------------------------- claims, return arity

\* The arity of a return statement: k for k comma-separated values, 0 for a
\* bare return or a return of None, 1 for any other expression.
ArityOf(value) ==
    IF value.kind = "tuple" THEN value.n
    ELSE IF value.kind \in {"none", "bare"} THEN 0
    ELSE 1

ReturnsOf(body) == {i \in DOMAIN body : body[i].stmt \in {"return", "if"}}

\* C17: the inferred output count is the arity of the function's return
\* statement, wherever in the body that statement stands.
C17_CountIsReturnArity ==
    (Done /\ Cardinality(ReturnsOf(inp.body)) = 1) =>
        \A i \in ReturnsOf(inp.body) : ret.count = ArityOf(inp.body[i].value)

\* ======================================== the adapter's inputs and options
\* generate_block, its input interfaces and options, and the call of the
\* compute function in compute_func_wrapper (src/gen_block/gen_block.py).
\*
\* A signature is a sequence of parameters [name, kind]: "pos" for a
\* positional-or-keyword parameter, "var_pos" for *args, "kw_only" for a
\* parameter after *args.  The value read from a port or an option is named
\* by the port's label or the option's name.

Ch_a == <<"a">>
Ch_b == <<"b">>
Ch_v == <<"v">>
Ch_v1 == <<"v", "1">>
Ch_v2 == <<"v", "2">>
Ch_nv == <<"n", "v">>
Ch_z == <<"z">>

Parameter(name, kind) == [name |-> name, kind |-> kind]

\* def f(a), f(a, b), f(*v), f(a, *v), f(*v, b), f(nv, *v)
PortSignatures ==
    {<<Parameter(Ch_a, "pos")>>,
     <<Parameter(Ch_a, "pos"), Parameter(Ch_b, "pos")>>,
     <<Parameter(Ch_v, "var_pos")>>,
     <<Parameter(Ch_a, "pos"), Parameter(Ch_v, "var_pos")>>,
     <<Parameter(Ch_v, "var_pos"), Parameter(Ch_b, "kw_only")>>,
     <<Parameter(Ch_nv, "pos"), Parameter(Ch_v, "var_pos")>>}

Label(key) == <<"L">> \o key

\* options_config["input_names"]: some of these keys, each with its label.
InputNameKeys == <<Ch_a, Ch_nv, Ch_v1, Ch_v2, Ch_v, Ch_z>>

InputNameConfigs ==
    {SelectIdx([i \in DOMAIN InputNameKeys |-> Entry(InputNameKeys[i], Label(InputNameKeys[i]))], S) :
        S \in SUBSET DOMAIN InputNameKeys}

\* options_config["options"]: some of these keys, with or without a "name".
OptionKeys == <<Ch_a, Ch_v, Ch_z>>

OptionConfigs ==
    {SelectIdx([i \in DOMAIN OptionKeys |->
                  Entry(OptionKeys[i], [has_name |-> h, name |-> <<"O">> \o OptionKeys[i]])], S) :
        S \in SUBSET DOMAIN OptionKeys, h \in BOOLEAN}

\* option_config_.get("name", option_name)
OptionName(option) == IF option.v.has_name THEN option.v.name ELSE option.k

\* `param_name in k` on two strings: param_name occurs somewhere in k.
Contains(k, param_name) == Find(k, param_name) > 0

\* var_pos_params = [k for k, v in op_conf_in_n.items() if param_name in k]
VarPosParams(op_conf_in_n, param_name) ==
    SelectIdx(op_conf_in_n,
              {i \in DOMAIN op_conf_in_n : Contains(op_conf_in_n[i].k, param_name)})

\* The keys of op_conf_in_n that begin with param_name.
VarPosParamsByPrefix(op_conf_in_n, param_name) ==
    SelectIdx(op_conf_in_n,
              {i \in DOMAIN op_conf_in_n :
                  SubSeq(op_conf_in_n[i].k, 1, Len(param_name)) = param_name})

\* op_conf_in_n.get(param_name, param_name)
LabelOrName(op_conf_in_n, param_name) ==
    IF Has(op_conf_in_n, param_name) THEN Get(op_conf_in_n, param_name) ELSE param_name

\* input_names_all[param_name]: a list of labels for an expanded variadic
\* parameter, one label (a str) for every other parameter.
InputNameOf(op_conf_in_n, param) ==
    LET var_pos_params == VarPosParams(op_conf_in_n, param.name)
    IN  IF param.kind = "var_pos" /\ var_pos_params # << >>
        THEN [list |-> TRUE,
              labels |-> [i \in DOMAIN var_pos_params |-> var_pos_params[i].v]]
        ELSE [list |-> FALSE, labels |-> <<LabelOrName(op_conf_in_n, param.name)>>]

InputNamesAll(signature, op_conf_in_n) ==
    [i \in DOMAIN signature |->
        Entry(signature[i].name, InputNameOf(op_conf_in_n, signature[i]))]

\* input_names_current = {k: v for k, v in input_names_all.items()
\*                        if k not in options_names}
InputNamesCurrent(input_names_all, options_names) ==
    SelectIdx(input_names_all,
              {i \in DOMAIN input_names_all : ~Has(options_names, input_names_all[i].k)})

\* The add_input calls, in order.
AddedInputs(input_names_current) ==
    Flatten([i \in DOMAIN input_names_current |-> input_names_current[i].v.labels])

\* add_options: an option is added for every configured key that is a
\* parameter of the function, under its configured name.
AddedOptions(signature, options_names) ==
    LET kept == SelectIdx(options_names,
                          {i \in DOMAIN options_names :
                              \E j \in DOMAIN signature : signature[j].name = options_names[i].k})
    IN  [i \in DOMAIN kept |-> OptionName(kept[i])]

\* list_var_args: the labels of the expanded variadic ports, in order.
ListVarArgs(input_names_current) ==
    Flatten([i \in DOMAIN input_names_current |->
                IF input_names_current[i].v.list
                THEN input_names_current[i].v.labels ELSE << >>])

\* input_values: parameter name -> the value of its port, for the str entries.
InputValues(input_names_current) ==
    LET strs == SelectIdx(input_names_current,
                          {i \in DOMAIN input_names_current : ~input_names_current[i].v.list})
    IN  [i \in DOMAIN strs |-> Entry(strs[i].k, strs[i].v.labels[1])]

NoneValue == <<"N", "o", "n", "e">>

\* option_values: one entry for every configured option key.
OptionValues(options_names, added_options) ==
    [i \in DOMAIN options_names |->
        Entry(options_names[i].k,
              IF OptionName(options_names[i]) \in Range(added_options)
              THEN OptionName(options_names[i]) ELSE NoneValue)]

NamesOfKind(signature, kinds) ==
    LET ps == SelectIdx(signature, {i \in DOMAIN signature : signature[i].kind \in kinds})
    IN  [i \in DOMAIN ps |-> ps[i].name]

\* compute_function(*args, **kwargs) as Python binds it: positional values
\* fill the positional parameters in order and then *args; a keyword must
\* name a parameter other than *args that is not yet filled; no parameter
\* may stay without value.
BindCall(signature, args, kwargs) ==
    LET pos == NamesOfKind(signature, {"pos"})
        named == Range(NamesOfKind(signature, {"pos", "kw_only"}))
        has_var == NamesOfKind(signature, {"var_pos"}) # << >>
        filled == {pos[i] : i \in 1 .. Min(Len(pos), Len(args))}
    IN  IF \/ Len(args) > Len(pos) /\ ~has_var
           \/ Keys(kwargs) \cap filled # {}
           \/ ~(Keys(kwargs) \subseteq named)
           \/ ~(named \subseteq filled \cup Keys(kwargs))
        THEN [status |-> "TypeError"]
        ELSE [status |-> "ok",
              received |->
                 [i \in DOMAIN signature |->
                    Entry(signature[i].name,
                          IF signature[i].kind = "var_pos"
                          THEN SubSeq(args, Len(pos) + 1, Len(args))
                          ELSE IF signature[i].name \in filled
                               THEN <<args[CHOOSE j \in DOMAIN pos : pos[j] = signature[i].name]>>
                               ELSE <<Get(kwargs, signature[i].name)>>)]]

InitPorts ==
    /\ \E signature \in PortSignatures, input_names \in InputNameConfigs,
          options \in OptionConfigs :
          inp = [signature |-> signature, input_names |-> input_names, options |-> options]
    /\ pc = "config"
    /\ ret = [status |-> "none"]
    /\ calls = << >>
    /\ InitIdleNode

\* generate_block: the input interfaces and the options of the Block.  The
\* compute function of this family returns None, so the Block has no output.
GenerateBlock ==
    /\ pc = "config"
    /\ LET input_names_all == InputNamesAll(inp.signature, inp.input_names)
           input_names_current == InputNamesCurrent(input_names_all, inp.options)
       IN  block' = [num_outputs |-> 0, has_names |-> FALSE, configured |-> << >>,
                     output_names |-> << >>,
                     input_names_all |-> input_names_all,
                     input_names_current |-> input_names_current,
                     inputs |-> AddedInputs(input_names_current),
                     options |-> AddedOptions(inp.signature, inp.options)]
    /\ pc' = "built"
    /\ UNCHANGED <<ports, exec_time, last, inp, ret, calls, env>>

\* compute_func_wrapper on the built Block.  get_option on a name the Block
\* has no option for belongs to the Block library: it raises or yields None.
InvokeBlock ==
    /\ pc = "built"
    /\ \E get_option_raises \in BOOLEAN :
          LET args == ListVarArgs(block.input_names_current)
              option_values == OptionValues(inp.options, block.options)
              kwargs == InputValues(block.input_names_current) \o option_values
              missing == \E i \in DOMAIN option_values : option_values[i].v = NoneValue
              bound == BindCall(inp.signature, args, kwargs)
          IN  IF missing /\ get_option_raises
              THEN /\ last' = [status |-> "ValueError"]
                   /\ UNCHANGED exec_time
              ELSE IF bound.status # "ok"
                   THEN /\ last' = [status |-> "TypeError"]
                        /\ UNCHANGED exec_time
                   ELSE /\ last' = [status |-> "ok", received |-> bound.received]
                        /\ exec_time' = exec_time + 1
    /\ pc' = "invoked"
    /\ UNCHANGED <<block, ports, inp, ret, calls, env>>

NextPorts == GenerateBlock \/ InvokeBlock

SpecPorts == InitPorts /\ [][NextPorts]_vars

\* ------------------------------------------- claims, inputs and options

Built == pc \in {"built", "invoked"}

HasInputPort(name) == Has(block.input_names_current, name)

HasOptionControl(name) ==
    \E i \in DOMAIN inp.options :
        /\ inp.options[i].k = name
        /\ OptionName(inp.options[i]) \in Range(block.options)

\* Every parameter has an input port or an option control, and not both.
ClassifiedOnce ==
    \A i \in DOMAIN inp.signature :
        HasInputPort(inp.signature[i].name) # HasOptionControl(inp.signature[i].name)

\* C18: every parameter is exactly one of positional input, variadic input
\* and option, and at invocation the compute function receives a value for
\* each of its parameters once and for no other name, whatever input_names
\* and options are configured.
C18_ParametersClassifiedAndBoundOnce ==
    /\ Built => ClassifiedOnce
    /\ pc = "invoked" =>
          /\ last.status = "ok"
          /\ \A i \in DOMAIN inp.signature :
                /\ last.received[i].k = inp.signature[i].name
                /\ inp.signature[i].kind # "var_pos" => Len(last.received[i].v) = 1

\* C19: a variadic parameter is expanded into N labeled ports exactly when
\* input_names lists N keys that begin with its name; other keys give it no
\* port.
C19_VariadicExpandedByPrefixedKeys ==
    Built =>
        \A i \in DOMAIN inp.signature :
            inp.signature[i].kind = "var_pos" =>
                LET prefixed == VarPosParamsByPrefix(inp.input_names, inp.signature[i].name)
                    entry == block.input_names_all[i].v
                IN  /\ entry.list <=> prefixed # << >>
                    /\ entry.list =>
                          entry.labels = [j \in DOMAIN prefixed |-> prefixed[j].v]

\* ------------------------------------------------- claims, output labels

\* C20: the final list of output labels has exactly as many entries as the
\* inferred output count n: a longer configured list is cut to its first n
\* labels, a shorter one keeps its labels in place and gets the default
\* labels output_i at the missing positions.
C20_OutputLabelsReconciled ==
    (pc = "idle") =>
        /\ Len(block.output_names) = block.num_outputs
        /\ \A i \in 1 .. block.num_outputs :
              block.output_names[i] =
                  IF block.has_names /\ i <= Len(block.configured)
                  THEN block.configured[i]
                  ELSE DefaultLabels[i]

\* Three labels configured for two outputs, and the node has run.
C20_Witness ==
    /\ pc = "idle"
    /\ block.has_names
    /\ block.num_outputs = 2
    /\ Len(block.configured) = 3
    /\ block.output_names = <<"a", "b">>
    /\ last.status = "ok"

\* ============================================================ result cache
\*
\* utils.cache_result keeps one pickle file per key in the cache folder. The
\* folder is env.store, a dict from cache file name to the unpickled value;
\* env.history lists the calls of wrapped functions in the order they were
\* made, and calls lists the executions of the underlying functions.

\* The functions that get wrapped: two different functions of one name (the
\* same def name in two modules) and a third of another name.
CacheFuncs ==
    { [id |-> 1, name |-> "compute"],
      [id |-> 2, name |-> "compute"],
      [id |-> 3, name |-> "load"] }

\* **kwargs as the call wrote them: a dict in the order of the call.
CallKwargs ==
    {EmptyDict}
        \cup {<<[k |-> "a", v |-> v]>> : v \in Val}
        \cup {<<[k |-> "a", v |-> v], [k |-> "b", v |-> 1]>> : v \in Val}
        \cup {<<[k |-> "b", v |-> 1], [k |-> "a", v |-> v]>> : v \in Val}

CallArguments == [args : {<< >>, <<1>>}, kwargs : CallKwargs]

\* generate_cache_filename: the digest of the pickle of
\* (func.__name__, args, kwargs). The pickle writes a dict in its insertion
\* order and the digest is taken as injective, so the file name is the triple
\* itself, the keyword arguments in the order of the call.
GenerateCacheFilename(func, arguments) ==
    <<func.name, arguments.args, arguments.kwargs>>

\* The try block of the wrapper: the file is read when reset is off and the
\* file is there.
ReadsCache(store, cache_file, reset) == (~reset) /\ Has(store, cache_file)

\* What an execution of the underlying function returns: the function may
\* depend on more than its arguments, so every execution has its own result.
Execution(func, arguments, run) ==
    [by |-> func.id, arguments |-> arguments, run |-> run]

InitCache ==
    /\ InitNoBlock
    /\ inp = [deco |-> "cache_result"]
    /\ pc = "idle"
    /\ ret = [status |-> "none"]
    /\ calls = << >>
    /\ env = [store |-> EmptyDict, history |-> << >>]

\* wrapper(*args, **kwargs) of cache_result(reset)(func), the whole call.
CachedCall ==
    /\ Len(env.history) < MaxCalls
    /\ \E func \in CacheFuncs, reset \in BOOLEAN, arguments \in CallArguments,
          raises \in BOOLEAN :
          LET cache_file == GenerateCacheFilename(func, arguments)
              result == Execution(func, arguments, Len(calls) + 1)
              entry == [func |-> func.id, reset |-> reset,
                        arguments |-> arguments]
          IN  IF ReadsCache(env.store, cache_file, reset)
              THEN /\ ret' = [status |-> "ok",
                              result |-> Get(env.store, cache_file)]
                   /\ env' = [env EXCEPT !.history =
                                Append(@, entry @@ [status |-> "ok",
                                    executed |-> FALSE,
                                    result |-> Get(env.store, cache_file)])]
                   /\ calls' = calls
              ELSE /\ calls' = Append(calls, [func |-> func.id,
                                              arguments |-> arguments])
                   /\ IF raises
                      THEN /\ ret' = [status |-> "raised"]
                           /\ env' = [env EXCEPT !.history =
                                        Append(@, entry @@ [status |-> "raised",
                                            executed |-> TRUE,
                                            result |-> None])]
                      ELSE /\ ret' = [status |-> "ok", result |-> result]
                           /\ env' = [store |-> Put(env.store, cache_file, result),
                                      history |->
                                        Append(env.history,
                                            entry @@ [status |-> "ok",
                                                executed |-> TRUE,
                                                result |-> result])]
    /\ pc' = "called"
    /\ UNCHANGED <<inp, nodeVars>>

NextCache == CachedCall

SpecCache == InitCache /\ [][NextCache]_vars

\* Python's ==  on the arguments of two calls: the positional arguments in
\* order, the keyword arguments as dicts, whatever order they were written in.
SameArguments(x, y) ==
    /\ x.args = y.args
    /\ Keys(x.kwargs) = Keys(y.kwargs)
    /\ \A k \in Keys(x.kwargs) : Get(x.kwargs, k) = Get(y.kwargs, k)

\* Call j repeats the completed call i of the same function wrapped with
\* caching on.
Repeats(i, j) ==
    /\ i < j
    /\ env.history[i].func = env.history[j].func
    /\ ~env.history[i].reset /\ ~env.history[j].reset
    /\ env.history[i].status = "ok"
    /\ SameArguments(env.history[i].arguments, env.history[j].arguments)
    /\ \A n \in i .. j : env.history[n].func = env.history[i].func

CacheRun == inp = [deco |-> "cache_result"]

\* C21: with caching on, in a sequence of calls of one wrapped function, a
\* call whose arguments equal those of an earlier completed call returns that
\* call's result and does not execute the underlying function again.
C21_RepeatedCallServedFromCache ==
    CacheRun =>
        \A j \in DOMAIN env.history : \A i \in DOMAIN env.history :
            Repeats(i, j) =>
                /\ env.history[j].status = "ok"
                /\ env.history[j].result = env.history[i].result
                /\ ~env.history[j].executed

\* C22: a call that completes returns a result its own function computed:
\* two different functions called with equal arguments share no cache entry.
C22_ResultComputedByCalledFunction ==
    CacheRun =>
        \A j \in DOMAIN env.history :
            env.history[j].status = "ok" =>
                env.history[j].result.by = env.history[j].func

\* ================================================= decorator with options
\*
\* A block built with a decorator factory (func_modificator) some of whose
\* parameters are visible: each visible parameter is an option of the block.
\* env.options holds the live option values, env.memory what the block's
\* Memory has stored.

ModificatorConfigs ==
    {EmptyDict}
        \cup {<<[k |-> "p", v |-> v]>> : v \in Val}
        \cup {<<[k |-> "q", v |-> v]>> : v \in Val}
        \cup {<<[k |-> "p", v |-> v], [k |-> "q", v |-> w]>> : v, w \in Val}

ModificatorVisible == {<<"p">>, <<"q">>, <<"p", "q">>}

\* add_options gives an integer option the value 0 until the user sets it.
OptionDefault == 0

OptionSettings == {OptionDefault} \cup Val

\* func_modificator_options_names when the configuration has none: every
\* visible parameter is an option of its own name.
ModificatorOptionsNames(visible) ==
    [i \in DOMAIN visible |-> [k |-> visible[i], v |-> visible[i]]]

\* func_modificator_option_values: parameter -> the option's live value.
ModificatorOptionValues(options_names, options) ==
    [i \in DOMAIN options_names |->
        [k |-> options_names[i].k, v |-> Get(options, options_names[i].v)]]

\* The instance keeps the build-time parameters.
BuildTimeConfigParams(config_params, option_values) == config_params

\* func_modificator_config_params_new: a copy of the build-time parameters
\* updated with the option values.
NewConfigParams(config_params, option_values) ==
    Update(config_params, option_values)

\* The output port before the first invocation: run 0 of no instance.
NothingComputed == [modificator |-> EmptyDict, run |-> 0]

InitModificator ==
    /\ \E config_params \in ModificatorConfigs, visible \in ModificatorVisible :
          /\ block = [num_outputs |-> 1, has_names |-> FALSE,
                      configured |-> << >>, output_names |-> <<"output_1">>,
                      func_modificator_config_params |-> config_params,
                      func_modificator_params_visible |-> visible,
                      func_modificator_options_names |->
                          ModificatorOptionsNames(visible)]
          /\ env = [options |-> [i \in DOMAIN visible |->
                                    [k |-> visible[i], v |-> OptionDefault]],
                    memory |-> {}]
    /\ ports = [l \in {"output_1"} |-> NothingComputed]
    /\ exec_time = 0
    /\ last = [status |-> "none"]
    /\ inp = [deco |-> "func_modificator"]
    /\ pc = "built"
    /\ ret = [status |-> "none"]
    /\ calls = << >>

\* The user sets one of the decorator's options between two invocations.
SetModificatorOption ==
    /\ \E name \in Keys(env.options), value \in OptionSettings :
          /\ Get(env.options, name) # value
          /\ env' = [env EXCEPT !.options = Put(@, name, value)]
    /\ UNCHANGED <<block, ports, exec_time, last, combVars>>

\* compute_func_wrapper of a block with a decorator factory. cache_ is the
\* Cache Block option. Memory is library code: whether it finds a stored
\* result for this call is left open, and a stored result is one an earlier
\* invocation of this block computed.
InvokeModified ==
    /\ exec_time < MaxInvocations
    /\ \E cache_ \in BOOLEAN, found \in BOOLEAN :
          LET option_values ==
                  ModificatorOptionValues(block.func_modificator_options_names,
                                          env.options)
              config_params_new ==
                  NewConfigParams(block.func_modificator_config_params,
                                  option_values)
              computed == [modificator |-> config_params_new,
                           run |-> Len(calls) + 1]
          IN  /\ IF cache_ /\ found /\ env.memory # {}
                 THEN \E stored \in env.memory :
                        /\ ports' = [ports EXCEPT !["output_1"] = stored]
                        /\ last' = [status |-> "ok",
                                    modificator |-> config_params_new,
                                    option_values |-> option_values,
                                    executed |-> FALSE, outputs |-> stored]
                        /\ UNCHANGED <<calls, env>>
                 ELSE /\ ports' = [ports EXCEPT !["output_1"] = computed]
                      /\ last' = [status |-> "ok",
                                  modificator |-> config_params_new,
                                  option_values |-> option_values,
                                  executed |-> TRUE, outputs |-> computed]
                      /\ calls' = Append(calls, config_params_new)
                      /\ env' = IF cache_
                                THEN [env EXCEPT !.memory = @ \cup {computed}]
                                ELSE env
    /\ exec_time' = exec_time + 1
    /\ UNCHANGED <<block, inp, pc, ret>>

NextModificator == SetModificatorOption \/ InvokeModified

SpecModificator == InitModificator /\ [][NextModificator]_vars

\* The step is an invocation of a block with a decorator factory.
InvokesModified ==
    /\ inp = [deco |-> "func_modificator"]
    /\ exec_time' # exec_time

NodeRun == inp = [deco |-> "none"]

\* C24: an invocation whose compute function raises has called it once, the
\* exception reaches the host, no output port is given a value and no
\* execution time is recorded.
C24_RaiseLeavesPortsAndTime ==
    [][(NodeRun /\ last'.status = "ComputeError") =>
          /\ calls' = Append(calls, "raised")
          /\ ports' = ports
          /\ exec_time' = exec_time]_vars

\* A raising invocation after one that published: the ports still hold the
\* earlier values and the one recorded execution is the earlier one.
C24_Witness ==
    /\ NodeRun
    /\ last.status = "ComputeError"
    /\ calls = <<"returned", "raised">>
    /\ exec_time = 1
    /\ \E l \in DOMAIN ports : ports[l] # None

\* ========================================= repeated calls of one wrapper
\*
\* One decorated function called up to MaxCalls times by one caller. The
\* caller keeps its arguments between the calls: env.data_sources and
\* env.list_dict_params are the caller's objects as they are now, inp holds
\* what they were when the caller made them. env.default is the list the
\* wrapper's signature holds as the default of list_dict_params, made once
\* when the function is decorated.

\* The wrapper's default for list_dict_params: [dict()].
DefaultListDictParams == [kind |-> ListKind, entries |-> <<EmptyDict>>]

\* process_list_of_dicts writes d[k] = v into the dicts it was given: what the
\* object passed as list_dict_params holds after the call. A single dict is
\* the one element of the list made for it, None gets a new list.
AfterProcessListOfDicts(list_dict_params, func, data_params, set_rev) ==
    LET filled == ProcessListOfDicts(list_dict_params, func, data_params, set_rev)
    IN  IF list_dict_params.kind = ListKind
        THEN [kind |-> ListKind, entries |-> filled]
        ELSE IF list_dict_params.kind = DictKind
        THEN [kind |-> DictKind, dict |-> filled[1]]
        ELSE list_dict_params

\* Calls of functions of one data parameter over a source of bare values or
\* of pairs, every signature and every parameter grid over it.
InitRepeat ==
    \E with_prov \in BOOLEAN, add_new_params \in BOOLEAN :
    \E grid_params \in Signatures :
    \E list_dict_params \in GridsOf(grid_params) :
    \E set_rev \in (IF Len(grid_params) > 1 THEN BOOLEAN ELSE {FALSE}) :
        inp = [deco |-> Deco(1, <<0>>, FALSE, add_new_params, TRUE, << >>, FALSE),
               func |-> Func(1, grid_params),
               data_sources |-> <<IF with_prov THEN PairSource(1, 2)
                                  ELSE BareSource(1, 2)>>,
               list_dict_params |-> list_dict_params,
               set_rev |-> set_rev]

InitRepeatCalls ==
    /\ InitRepeat
    /\ InitNoBlock
    /\ pc = "ready"
    /\ ret = [status |-> "none"]
    /\ calls = << >>
    /\ env = [data_sources |-> inp.data_sources,
              list_dict_params |-> inp.list_dict_params,
              default |-> DefaultListDictParams,
              made |-> 0]

\* One more call of the wrapper, list_dict_params passed by the caller or
\* left to its default.
CombineAgain ==
    /\ env.made < MaxCalls
    /\ \E omitted \in BOOLEAN :
          LET passed == IF omitted THEN env.default ELSE env.list_dict_params
              after == AfterProcessListOfDicts(passed, inp.func,
                                               inp.deco.data_params, inp.set_rev)
              r == Wrapper(inp.deco, inp.func, env.data_sources, passed,
                           inp.set_rev)
          IN  /\ ret' = IF r.status = "ok"
                        THEN [status |-> "ok", final_result |-> r.final_result]
                        ELSE [status |-> r.status]
              /\ calls' = r.calls
              /\ env' = [data_sources |-> env.data_sources,
                         list_dict_params |->
                             IF omitted THEN env.list_dict_params ELSE after,
                         default |-> IF omitted THEN after ELSE env.default,
                         made |-> env.made + 1]
    /\ pc' = "returned"
    /\ UNCHANGED <<inp, nodeVars>>

NextRepeat == CombineAgain

SpecRepeat == InitRepeatCalls /\ [][NextRepeat]_vars

\* A run of repeated calls, after at least one of them.
Repeated == pc = "returned"

\* C25: after a call every argument of the caller is what it was before the
\* call, and the wrapper's default parameter list is what it was when the
\* function was decorated: no call leaves anything for a later call to see.
C25_CallsLeaveInputsAndDefaultAlone ==
    Repeated =>
        /\ env.data_sources = inp.data_sources
        /\ env.list_dict_params = inp.list_dict_params
        /\ env.default = DefaultListDictParams

\* ===================================================== source normalization

\* The elements of a data source: bare values and (provenance, value) pairs.
SourceElements ==
    {Bare(v) : v \in Val}
        \cup {Pair(p, v) : p \in {EmptyDict, <<[k |-> Ch_x, v |-> 1]>>}, v \in Val}

\* The data sources normalized in the model: every list of up to MaxLen + 1
\* elements, all bare, all pairs, or mixed.
SourceLists ==
    UNION {[1 .. n -> SourceElements] : n \in 0 .. MaxLen + 1}

InitEnsure ==
    /\ InitIdleNode
    /\ inp \in [arr_list : SourceLists]
    /\ pc = "ready"
    /\ ret = [status |-> "none"]
    /\ calls = << >>

\* _ensure_tuples(arr_list)
EnsureTuplesCall ==
    /\ pc = "ready"
    /\ ret' = [status |-> "ok", arr_list |-> EnsureTuples(inp.arr_list)]
    /\ pc' = "normalized"
    /\ UNCHANGED <<inp, calls, nodeVars, env>>

NextEnsure == EnsureTuplesCall

SpecEnsure == InitEnsure /\ [][NextEnsure]_vars

\* C26: a source is normalized element by element: a bare value v becomes
\* ({}, v), an element that is a (provenance, value) pair stays that pair,
\* whatever the other elements of the list are.
C26_NormalizedElementByElement ==
    pc = "normalized" =>
        /\ Len(ret.arr_list) = Len(inp.arr_list)
        /\ \A i \in DOMAIN inp.arr_list :
              ret.arr_list[i] =
                  IF inp.arr_list[i].pair
                  THEN [prov |-> inp.arr_list[i].prov,
                        data |-> Bare(inp.arr_list[i].val)]
                  ELSE [prov |-> EmptyDict, data |-> inp.arr_list[i]]

\* =================================================== concurrent cached calls
\*
\* MaxProcs callers run the wrapper of one function wrapped by cache_result()
\* at the same time, each with its argument: callers with the same argument
\* have the same cache file. A step is a statement of the wrapper: the read
\* of the try block, the call of the function, open(cache_file, 'wb'), and
\* pickle.dump with the close of the file, the pickle taken as written in
\* one write. env.files is the cache folder, env.writes the dumps in the
\* order they were made; pc and ret are per caller.

MaxProcs == 2

Procs == 1 .. MaxProcs

\* No file of that name, the file open(..., 'wb') has just emptied, the file
\* a dump has filled.
NoFile == [state |-> "absent", value |-> None]
EmptyFile == [state |-> "empty", value |-> None]
FullFile(value) == [state |-> "full", value |-> value]

\* A dump never replaces a file that holds a value.
DumpUnlessFull(file, value) ==
    IF file.state = "full" THEN file ELSE FullFile(value)

\* pickle.dump(cached_data, file) and the close of the with block.
Dump(file, value) == FullFile(value)

InitRace ==
    /\ InitNoBlock
    /\ inp \in [args : [Procs -> Val]]
    /\ pc = [p \in Procs |-> "start"]
    /\ ret = [p \in Procs |-> [status |-> "none", result |-> None]]
    /\ calls = << >>
    /\ env = [files |-> [k \in Val |-> NoFile], writes |-> << >>]

\* The try block: a file that holds a value is loaded and returned; a missing
\* file (IOError) and an empty one (EOFError) fall through.
RaceRead(p) ==
    /\ pc[p] = "start"
    /\ LET file == env.files[inp.args[p]]
       IN  IF file.state = "full"
           THEN /\ ret' = [ret EXCEPT ![p] = [status |-> "cached",
                                              result |-> file.value]]
                /\ pc' = [pc EXCEPT ![p] = "done"]
           ELSE /\ pc' = [pc EXCEPT ![p] = "miss"]
                /\ ret' = ret
    /\ UNCHANGED <<inp, calls, env, nodeVars>>

\* result = func(*args, **kwargs): the function is not assumed to return the
\* same value to every caller, so each execution has the caller's own result;
\* an exception leaves the wrapper.
RaceExecute(p) ==
    /\ pc[p] = "miss"
    /\ calls' = Append(calls, p)
    /\ \E raises \in BOOLEAN :
          IF raises
          THEN /\ ret' = [ret EXCEPT ![p] = [status |-> "raised", result |-> None]]
               /\ pc' = [pc EXCEPT ![p] = "done"]
          ELSE /\ ret' = [ret EXCEPT ![p] = [status |-> "computed", result |-> p]]
               /\ pc' = [pc EXCEPT ![p] = "computed"]
    /\ UNCHANGED <<inp, env, nodeVars>>

\* os.makedirs and open(cache_file, 'wb'): the file is emptied.
RaceOpen(p) ==
    /\ pc[p] = "computed"
    /\ env' = [env EXCEPT !.files[inp.args[p]] = EmptyFile]
    /\ pc' = [pc EXCEPT ![p] = "opened"]
    /\ UNCHANGED <<inp, ret, calls, nodeVars>>

RaceDump(p) ==
    /\ pc[p] = "opened"
    /\ env' = [files |-> [env.files EXCEPT ![inp.args[p]] =
                              Dump(@, ret[p].result)],
               writes |-> Append(env.writes, p)]
    /\ pc' = [pc EXCEPT ![p] = "done"]
    /\ UNCHANGED <<inp, ret, calls, nodeVars>>

NextRace ==
    \E p \in Procs : RaceRead(p) \/ RaceExecute(p) \/ RaceOpen(p) \/ RaceDump(p)

SpecRace == InitRace /\ [][NextRace]_vars

\* A run of concurrent callers in which every caller has left the wrapper.
AllCompleted ==
    /\ DOMAIN pc = Procs
    /\ \A p \in Procs : pc[p] = "done"

\* The dumps made into the file of argument k, in order.
WritesTo(k) ==
    SelectIdx(env.writes, {i \in DOMAIN env.writes : inp.args[env.writes[i]] = k})

\* C27: callers of one key are not coordinated, and once all of them have
\* completed the file of a key holds the value of the caller that dumped into
\* it last.
C27_LastWriterWins ==
    AllCompleted =>
        \A k \in Val :
            WritesTo(k) # << >> =>
                env.files[k] = FullFile(ret[WritesTo(k)[Len(WritesTo(k))]].result)

\* Two callers of one key both executed the function and both dumped: the
\* file holds the second dump, not the first.
C27_Witness ==
    /\ AllCompleted
    /\ inp.args[1] = inp.args[2]
    /\ Len(calls) = 2
    /\ Len(env.writes) = 2
    /\ env.files[inp.args[1]] = FullFile(ret[env.writes[2]].result)
    /\ env.files[inp.args[1]] # FullFile(ret[env.writes[1]].result)

\* ================================================================== storage
\*
\* storage(data, id_str, overwrite, unique) of the default blocks keeps the
\* stored objects in st.session_state["storage"], one dict per data class.
\* env.storage is that mapping: class name -> dict from key to object. A key
\* is a string, a sequence of characters; the numbers met in the model have
\* one digit.

MaxStores == 3

Digits == <<"1", "2", "3", "4", "5", "6", "7", "8", "9">>

\* str(n) and int(s) of a one-digit number.
StrOfInt(n) == <<Digits[n]>>
IntOfStr(s) == CHOOSE n \in DOMAIN Digits : <<Digits[n]>> = s

Dash == <<"-">>

\* s.startswith(prefix)
StartsWith(s, prefix) ==
    /\ Len(prefix) <= Len(s)
    /\ SubSeq(s, 1, Len(prefix)) = prefix

\* s.split("-")[-1]: what follows the last "-", the whole of s without one.
LastPart(s) ==
    LET dashes == {i \in DOMAIN s : s[i] = "-"}
    IN  IF dashes = {} THEN s ELSE SubSeq(s, Max(dashes) + 1, Len(s))

\* The classes of the stored objects and the identifiers typed by the user:
\* none, and three of which each begins with the one before.
DataClasses == {<<"A">>, <<"B">>}
IdStrs == {<< >>, <<"a">>, <<"a", "b">>, <<"a", "b", "-", "1">>}

\* The object a call stores: a new object of a class, id(data) being the
\* number of the call.
StoredObject(cls, n) == [cls |-> cls, id |-> n]

\* init_name
InitName(data, id_str, unique) ==
    IF Len(id_str) > 0 THEN id_str
    ELSE IF unique THEN data.cls \o Underscore \o StrOfInt(data.id)
    ELSE data.cls

\* keys_ids_str: the keys of the class that start with init_name.
KeysIdsStr(dict, init_name) ==
    SelectIdx([i \in DOMAIN dict |-> dict[i].k],
              {i \in DOMAIN dict : StartsWith(dict[i].k, init_name)})

\* The key always ends in -1.
DataNameFirst(keys_ids_str, init_name, overwrite) ==
    init_name \o Dash \o StrOfInt(1)

\* data_name
DataName(keys_ids_str, init_name, overwrite) ==
    IF Len(keys_ids_str) > 0 /\ ~overwrite
    THEN init_name \o Dash \o
            StrOfInt(Max({IntOfStr(LastPart(keys_ids_str[i])) :
                            i \in DOMAIN keys_ids_str}) + 1)
    ELSE init_name \o Dash \o StrOfInt(1)

InitStorage ==
    /\ InitNoBlock
    /\ inp = [deco |-> "storage"]
    /\ pc = "idle"
    /\ ret = [status |-> "none"]
    /\ calls = << >>
    /\ env = [storage |-> [cls \in DataClasses |-> EmptyDict], made |-> 0]

\* One call of storage.
Storage ==
    /\ env.made < MaxStores
    /\ \E cls \in DataClasses, id_str \in IdStrs,
          overwrite \in BOOLEAN, unique \in BOOLEAN :
          LET data == StoredObject(cls, env.made + 1)
              init_name == InitName(data, id_str, unique)
              keys_ids_str == KeysIdsStr(env.storage[cls], init_name)
              data_name == DataName(keys_ids_str, init_name, overwrite)
          IN  /\ env' = [storage |-> [env.storage EXCEPT ![cls] =
                                          Put(@, data_name, data)],
                         made |-> env.made + 1]
              /\ ret' = [status |-> "ok", data |-> data, init_name |-> init_name,
                         overwrite |-> overwrite, data_name |-> data_name]
    /\ pc' = "stored"
    /\ UNCHANGED <<inp, calls, nodeVars>>

NextStorage == Storage

SpecStorage == InitStorage /\ [][NextStorage]_vars

\* The step is a call of storage.
Stores ==
    /\ inp = [deco |-> "storage"]
    /\ env'.made # env.made

\* Every entry stored before the step is there after it, with its object.
EntriesKept ==
    \A cls \in DataClasses : \A k \in Keys(env.storage[cls]) :
        /\ Has(env'.storage[cls], k)
        /\ Get(env'.storage[cls], k) = Get(env.storage[cls], k)

\* Every entry but the one of the written key is there after the step.
OtherEntriesKept ==
    \A cls \in DataClasses : \A k \in Keys(env.storage[cls]) :
        (cls # ret'.data.cls \/ k # ret'.data_name) =>
            /\ Has(env'.storage[cls], k)
            /\ Get(env'.storage[cls], k) = Get(env.storage[cls], k)

\* The step added exactly the key <identifier>-<n> to the object's class, n
\* above the number every earlier key of the class that begins with the
\* identifier ends in.
OneKeyAdded ==
    LET before == env.storage[ret'.data.cls]
        after == env'.storage[ret'.data.cls]
    IN  /\ Keys(after) = Keys(before) \cup {ret'.data_name}
        /\ ret'.data_name \notin Keys(before)
        /\ Get(after, ret'.data_name) = ret'.data
        /\ \E n \in DOMAIN Digits :
              /\ ret'.data_name = ret'.init_name \o Dash \o StrOfInt(n)
              /\ \A k \in Keys(before) :
                    StartsWith(k, ret'.init_name) => IntOfStr(LastPart(k)) < n

\* C28: a storage call with overwrite off replaces and removes nothing and
\* adds one key <identifier>-<n>, n greater than the number of every earlier
\* key of the class beginning with the identifier; a call with overwrite on
\* writes the key <identifier>-1 and touches no other entry.
C28_StorageKeepsEntries ==
    [][Stores =>
        /\ ~ret'.overwrite => (EntriesKept /\ OneKeyAdded)
        /\ ret'.overwrite =>
              /\ ret'.data_name = ret'.init_name \o Dash \o StrOfInt(1)
              /\ Get(env'.storage[ret'.data.cls], ret'.data_name) = ret'.data
              /\ OtherEntriesKept]_vars

\* Three calls with overwrite off for identifiers that begin alike: ab twice,
\* then a, whose key gets the number 3 although no key of a was there.
C28_Witness ==
    /\ inp = [deco |-> "storage"]
    /\ env.made = 3
    /\ ~ret.overwrite
    /\ ret.data_name = <<"a", "-", "3">>
    /\ Keys(env.storage[ret.data.cls]) =
          {<<"a", "b", "-", "1">>, <<"a", "b", "-", "2">>, <<"a", "-", "3">>}

\* ------------------------------------------- claims, the aggregate port

\* The variadic parameters that have one port of their own: no key of
\* input_names expanded them and no option took them.
AggregatePorts ==
    {i \in DOMAIN block.input_names_current :
        /\ ~block.input_names_current[i].v.list
        /\ \E j \in DOMAIN inp.signature :
              /\ inp.signature[j].name = block.input_names_current[i].k
              /\ inp.signature[j].kind = "var_pos"}

\* C29: a node whose variadic parameter is kept as one aggregate port can be
\* invoked: the call does not fail on binding its arguments, and the compute
\* function receives the value of that port in its variadic parameter.
C29_AggregatePortDelivered ==
    (pc = "invoked" /\ AggregatePorts # {}) =>
        /\ last.status # "TypeError"
        /\ last.status = "ok" =>
              \A i \in AggregatePorts :
                  \E j \in DOMAIN last.received :
                      /\ last.received[j].k = block.input_names_current[i].k
                      /\ last.received[j].v = block.input_names_current[i].v.labels

\* ------------------------------------------- claims, the host's seed flags

\* A configuration is loaded and the "Random seed" flag of every loaded
\* configuration is off.
AllSeedFlagsOff ==
    /\ inp.random_seed # << >>
    /\ \A i \in DOMAIN inp.random_seed : ~inp.random_seed[i].v

\* C30: with a configuration loaded and every configuration's random-seed
\* flag off, the combinations keep the seed values expanded from the grid.
C30_FlagsOffKeepGridSeeds ==
    (Done /\ ret.status = "ok" /\ AllSeedFlagsOff) => ret.combos = Expanded

====
